---- MODULE Spec2Model ----
(***************************************************************************)
(* A model of the PyCraft engine core: the entity hierarchy                *)
(* (engine/core/ecs/entity.py), the scene registry with its persistence    *)
(* (engine/core/scene/scene.py), the ordered system list and the script    *)
(* scheduler (engine/scripting/script_system.py).                          *)
(*                                                                         *)
(* Entities are objects of a finite pool.  Every object of the pool is an  *)
(* Entity(); an object nothing refers to stands for an entity not yet      *)
(* constructed, and constructing resets its fields as Entity.__init__      *)
(* does.  A method is one action; the methods it calls are operators on a  *)
(* heap record, so that a call chain (destroy -> remove_child ->           *)
(* remove_entity) is computed as the code runs it.                         *)
(***************************************************************************)
EXTENDS Integers, Sequences, FiniteSets, TLC

\* ------------------------------------------------------------------ bounds

NumEntities == 3
NumScenes == 3
MaxRoots == 4
MaxCalls == 5
NumSystems == 3
MaxSystems == 3
NumScripts == 2
MaxStarts == 2
MaxReload == 7
NumComponents == 3
MaxParts == 3
MaxNodes == 2
MaxDestroy == 4
\* the bits of the significand of a float, which has 53 in the build
MantissaBits == 3

\* System.__init__: self.priority = 0
DefaultPriority == 0
\* ScriptSystem.fixed_time_step, with time in integer units
FixedStep == 2

Ent == 1..NumEntities
Scenes == 1..NumScenes
Ids == 1..(2 * NumEntities)
None == 0
Names == {"a", "b"}
CompTypes == {"T1", "T2"}
\* the component classes that define serialize()/deserialize()
Serializable == {"T1", "T3"}
\* the class names _get_component_class resolves in one of its two namespaces
Resolvable == {"T1"}
Tags == {"t"}
Layers == {0, 1}
DefaultName == "Entity"
Sys == 1..NumSystems
\* the priorities the constructors of the systems set
Priorities == {10, 20, 30}
Scr == 1..NumScripts
\* the component objects; the odd ones are of class T1, the even ones of class T2
Comp == 1..NumComponents
TypeOf(c) == IF c % 2 = 1 THEN "T1" ELSE "T2"
\* the frame times update is called with
Dts == 0..(2 * FixedStep + 1)
\* a frame time so long that one step is less than half the distance between the
\* floats next to it
LongFrame == (FixedStep \div 2) * 2 ^ (MantissaBits + 2)
\* the script class names: those the script paths define, and one they do not
Loadable == {"S"}
ScriptNames == {"S", "Missing"}
\* the six collision and trigger entry points of the script system, by the hook each
\* of them calls
CollisionHooks == {"on_collision_enter", "on_collision_stay", "on_collision_exit",
                   "on_trigger_enter", "on_trigger_stay", "on_trigger_exit"}

VARIABLES
  id,             \* Entity.id
  name,           \* Entity.name
  enabled,        \* Entity.enabled
  tags,           \* Entity.tags
  layer,          \* Entity.layer
  parent,         \* Entity.parent (None or an entity)
  children,       \* Entity.children (a list)
  scene,          \* Entity.scene (None or a scene)
  components,     \* Entity.components: the keys of the dict, in insertion order
  comp_enabled,   \* Component.enabled: per entity, the types whose component has it set
  comp_entity,    \* Component.entity (None or an entity), per component object
  component_enabled, \* Component.enabled, per component object
  held,           \* Entity.components with its values: a dict type -> component object
  entities,       \* Scene.entities: a dict id -> entity, as a list of <<id, entity>>
  root_entities,  \* Scene.root_entities (a list)
  priority,       \* System.priority
  sys_enabled,    \* System.enabled
  systems,        \* Scene.systems (a list)
  registered,     \* the systems of Scene.systems in the order add_system was called
  script_entity,  \* Script.entity (None for a script object not yet constructed)
  script_enabled, \* Script.enabled
  script_instances, \* ScriptSystem.script_instances: a dict entity id -> list of scripts
  initialized,    \* ScriptSystem.initialized
  accumulated_time, \* ScriptSystem.accumulated_time
  raising,        \* the hooks that raise when they are called, as <<script, hook>>
  starts,         \* per script, the number of start() calls it has received
  detached,       \* the scripts taken out of their instance list
  scene_id,       \* Scene.id (None for a scene object not yet constructed)
  active,         \* Scene.active
  scenes,         \* SceneManager.scenes: a dict scene id -> scene
  active_scene,   \* SceneManager.active_scene (None or a scene)
  file,           \* the document at the path save() and load() are called with
  ret,            \* the last call: its name, arguments, result and the hooks it fired
  calls           \* the number of calls made so far, where a specification bounds it

objVars == <<comp_entity, component_enabled, held>>
heapVars ==
  <<id, name, enabled, tags, layer, parent, children, scene, components, comp_enabled,
    entities, root_entities, objVars>>
sysVars == <<priority, sys_enabled, systems, registered>>
lifeVars == <<raising, starts, detached>>
scriptVars ==
  <<script_entity, script_enabled, script_instances, initialized, accumulated_time, lifeVars>>
mgrVars == <<scene_id, active, scenes, active_scene>>
vars == <<heapVars, sysVars, scriptVars, mgrVars, file, ret, calls>>

\* the file at the path: absent, a document json.load cannot parse, or a scene
\* document with its entity nodes
NoFile == [kind |-> "none", nodes |-> <<>>]
Garbage == [kind |-> "garbage", nodes |-> <<>>]
Doc(nodes) == [kind |-> "doc", nodes |-> nodes]

\* ------------------------------------------------------- lists and dicts

InSeq(x, s) == \E i \in 1..Len(s) : s[i] = x

Count(x, s) == Cardinality({i \in 1..Len(s) : s[i] = x})

IndexOf(x, s) == CHOOSE i \in 1..Len(s) : s[i] = x /\ \A j \in 1..(i - 1) : s[j] # x

\* list.remove(x): drops the first occurrence
RemoveFirst(s, x) ==
  IF InSeq(x, s)
  THEN LET k == IndexOf(x, s)
       IN [i \in 1..(Len(s) - 1) |-> IF i < k THEN s[i] ELSE s[i + 1]]
  ELSE s

Range(s) == {s[i] : i \in 1..Len(s)}

DictKeys(d) == {d[i][1] : i \in 1..Len(d)}

DictValues(d) == {d[i][2] : i \in 1..Len(d)}

\* d[k] = v: a present key keeps its place, a new key goes last
DictSet(d, k, v) ==
  IF k \in DictKeys(d)
  THEN [i \in 1..Len(d) |-> IF d[i][1] = k THEN <<k, v>> ELSE d[i]]
  ELSE Append(d, <<k, v>>)

DictDel(d, k) == SelectSeq(d, LAMBDA p : p[1] # k)

DictGet(d, k) == IF k \in DictKeys(d) THEN (CHOOSE p \in Range(d) : p[1] = k)[2] ELSE None

\* ------------------------------------------------------------------ heap

\* The mutable state the methods work on, with the hooks fired so far in this call,
\* whether the call has raised, and the steps of destroy() in the order they ran.
Heap ==
  [ids |-> id, name |-> name, enabled |-> enabled, tags |-> tags, layer |-> layer,
   parent |-> parent, children |-> children, scene |-> scene,
   components |-> components, comp_enabled |-> comp_enabled,
   entities |-> entities, root_entities |-> root_entities,
   fired |-> <<>>, raised |-> FALSE, steps |-> <<>>]

Commit(h) ==
  /\ id' = h.ids
  /\ name' = h.name
  /\ enabled' = h.enabled
  /\ tags' = h.tags
  /\ layer' = h.layer
  /\ comp_enabled' = h.comp_enabled
  /\ parent' = h.parent
  /\ children' = h.children
  /\ scene' = h.scene
  /\ components' = h.components
  /\ entities' = h.entities
  /\ root_entities' = h.root_entities
  /\ UNCHANGED objVars

Ret(op, self, arg, result, h, was) ==
  [op |-> op, self |-> self, arg |-> arg, result |-> result, fired |-> h.fired, was |-> was]

\* ----------------------------------------------------------------- Entity

\* remove_child without the test "if entity in self.children"
RemoveChildUnchecked(h, self, entity) ==
  [h EXCEPT !.parent[entity] = None, !.children[self] = RemoveFirst(@, entity)]

\* Entity.remove_child
RemoveChildH(h, self, entity) ==
  IF InSeq(entity, h.children[self])
  THEN [h EXCEPT !.parent[entity] = None,
                 !.children[self] = RemoveFirst(@, entity)]
  ELSE h

\* a plausible bug: add_child that forgets to detach the child from its prior parent
AddChildNoDetach(h, self, entity) ==
  [h EXCEPT !.parent[entity] = self, !.children[self] = Append(@, entity)]

\* Entity.add_child
AddChildH(h, self, entity) ==
  LET h1 == IF h.parent[entity] # None
            THEN RemoveChildH(h, h.parent[entity], entity)
            ELSE h
  IN [h1 EXCEPT !.parent[entity] = self, !.children[self] = Append(@, entity)]

\* Entity.add_component: the dict keeps a present key in place; on_add fires
AddComponentH(h, self, t) ==
  [h EXCEPT !.components[self] = IF InSeq(t, @) THEN @ ELSE Append(@, t),
            !.comp_enabled[self] = @ \cup {t},
            !.fired = Append(@, <<"on_add", self, t>>)]

\* Entity.remove_component: on_remove fires before the key is deleted
RemoveComponentH(h, self, t) ==
  IF InSeq(t, h.components[self])
  THEN [h EXCEPT !.fired = Append(@, <<"on_remove", self, t>>),
                 !.steps = Append(@, <<"on_remove", self, t>>),
                 !.components[self] = RemoveFirst(@, t),
                 !.comp_enabled[self] = @ \ {t}]
  ELSE h

\* destroy() without its loop over the components
KeepComponents(h, self, keys) == h

RECURSIVE RemoveAllComponents(_, _, _)
\* the loop of Entity.destroy over list(self.components.keys())
RemoveAllComponents(h, self, keys) ==
  IF keys = <<>> THEN h
  ELSE RemoveAllComponents(RemoveComponentH(h, self, Head(keys)), self, Tail(keys))

\* Scene.remove_entity
RemoveEntityH(h, s, entity) ==
  IF h.ids[entity] \in DictKeys(h.entities[s])
  THEN [h EXCEPT !.root_entities[s] = RemoveFirst(@, entity),
                 !.entities[s] = DictDel(@, h.ids[entity]),
                 !.scene[entity] = None]
  ELSE h

\* Scene.add_entity
AddEntityH(h, s, entity) ==
  LET h1 == [h EXCEPT !.entities[s] = DictSet(@, h.ids[entity], entity),
                      !.scene[entity] = s]
  IN IF h1.parent[entity] = None
     THEN [h1 EXCEPT !.root_entities[s] = Append(@, entity)]
     ELSE h1

RECURSIVE DestroyH(_, _, _)
RECURSIVE DestroyAll(_, _, _)

\* the loop "for child in self.children.copy(): child.destroy()", and the loop of
\* Scene.clear over list(self.entities.values()); an exception ends the loop
DestroyAll(h, list, stack) ==
  IF list = <<>> \/ h.raised THEN h
  ELSE DestroyAll(DestroyH(h, Head(list), stack), Tail(list), stack)

\* destroy() that takes the entity apart before it destroys the children
DestroyParentFirst(h, self, stack) ==
  IF self \in stack THEN [h EXCEPT !.raised = TRUE]
  ELSE
    LET h1 == RemoveAllComponents(h, self, h.components[self])
        h2 == IF h1.parent[self] # None
              THEN [RemoveChildH(h1, h1.parent[self], self)
                      EXCEPT !.steps = Append(@, <<"remove_child", self, h1.parent[self]>>)]
              ELSE h1
        h3 == IF h2.scene[self] # None
              THEN [RemoveEntityH(h2, h2.scene[self], self)
                      EXCEPT !.steps = Append(@, <<"remove_entity", self, h2.scene[self]>>)]
              ELSE h2
    IN DestroyAll(h3, h3.children[self], stack \cup {self})

\* Entity.destroy.  stack holds the entities whose destroy() is running: entering
\* one of them again repeats the same calls on the same state without end, which
\* Python ends with RecursionError; no frame of destroy catches it.  The steps record
\* the calls of remove_component that fire a hook, of parent.remove_child and of
\* scene.remove_entity, each with the entity it is made for.
DestroyH(h, self, stack) ==
  IF self \in stack THEN [h EXCEPT !.raised = TRUE]
  ELSE
    LET h1 == DestroyAll(h, h.children[self], stack \cup {self})
        h2 == RemoveAllComponents(h1, self, h1.components[self])
        h3 == IF h2.parent[self] # None
              THEN [RemoveChildH(h2, h2.parent[self], self)
                      EXCEPT !.steps = Append(@, <<"remove_child", self, h2.parent[self]>>)]
              ELSE h2
        h4 == IF h3.scene[self] # None
              THEN [RemoveEntityH(h3, h3.scene[self], self)
                      EXCEPT !.steps = Append(@, <<"remove_entity", self, h3.scene[self]>>)]
              ELSE h3
    IN IF h1.raised THEN h1 ELSE h4

\* ---------------------------------------------------------------- actions

\* A.add_child(B)
AddChild(a, b) ==
  LET h == AddChildH(Heap, a, b)
  IN /\ Commit(h)
     /\ ret' = Ret("add_child", a, b, "ok", h, parent[b])
     /\ UNCHANGED file

\* A.remove_child(B)
RemoveChild(a, b) ==
  LET h == RemoveChildH(Heap, a, b)
  IN /\ Commit(h)
     /\ ret' = Ret("remove_child", a, b, IF InSeq(b, children[a]) THEN "true" ELSE "false",
                   h, parent[b])
     /\ UNCHANGED file

InitEntities ==
  /\ id = [e \in Ent |-> e]
  /\ name = [e \in Ent |-> DefaultName]
  /\ enabled = [e \in Ent |-> TRUE]
  /\ tags = [e \in Ent |-> {}]
  /\ layer = [e \in Ent |-> 0]
  /\ parent = [e \in Ent |-> None]
  /\ children = [e \in Ent |-> <<>>]
  /\ scene = [e \in Ent |-> None]
  /\ components = [e \in Ent |-> <<>>]
  /\ comp_enabled = [e \in Ent |-> {}]
  /\ comp_entity = [c \in Comp |-> None]
  /\ component_enabled = [c \in Comp |-> TRUE]
  /\ held = [e \in Ent |-> <<>>]
  /\ file = NoFile
  /\ entities = [s \in Scenes |-> <<>>]
  /\ root_entities = [s \in Scenes |-> <<>>]
  /\ ret = [op |-> "init", self |-> None, arg |-> None, result |-> "ok",
            fired |-> <<>>, was |-> None]
  /\ calls = 0

\* an object nothing refers to: it stands for an entity not yet constructed
FreeIn(h, e) ==
  /\ h.parent[e] = None /\ h.children[e] = <<>> /\ h.scene[e] = None
  /\ h.components[e] = <<>>
  /\ \A x \in Ent : h.parent[x] # e /\ ~InSeq(e, h.children[x])
  /\ \A s \in Scenes : e \notin DictValues(h.entities[s]) /\ ~InSeq(e, h.root_entities[s])
  /\ \A x \in Scr : script_entity[x] # e

FreeEntities(h) == {e \in Ent : FreeIn(h, e)}

Min(S) == CHOOSE x \in S : \A y \in S : x <= y

\* The scene the caller has built with Scene(): the entities and the systems are
\* followed on it (the maps and lists of two scenes share nothing).
Main == Min(Scenes)

\* the ids of the nodes of a document
DocIds(f) == {f.nodes[i].id : i \in 1..Len(f.nodes)}

\* uuid.uuid4(): an id no other entity has and no document holds
FreshId(h, e) == Min(Ids \ ({h.ids[x] : x \in Ent \ {e}} \cup DocIds(file)))

\* Entity(name), on the first free object of the pool
NewEntityH(h, e, nm) ==
  [h EXCEPT !.ids[e] = FreshId(h, e), !.name[e] = nm, !.enabled[e] = TRUE,
            !.tags[e] = {}, !.layer[e] = 0, !.comp_enabled[e] = {}]

\* Scene.create_entity(name): Entity(name), then add_entity
CreateEntity(s, nm) ==
  /\ FreeEntities(Heap) # {}
  /\ Len(root_entities[s]) < MaxRoots
  /\ LET e == Min(FreeEntities(Heap))
         h == AddEntityH(NewEntityH(Heap, e, nm), s, e)
     IN /\ Commit(h)
        /\ ret' = Ret("create_entity", s, e, "ok", h, None)
        /\ UNCHANGED file

\* Scene.add_entity(entity)
AddEntity(s, e) ==
  /\ Len(root_entities[s]) < MaxRoots
  /\ LET h == AddEntityH(Heap, s, e)
     IN /\ Commit(h)
        /\ ret' = Ret("add_entity", s, e, "ok", h, parent[e])
        /\ UNCHANGED file

\* Scene.remove_entity(entity)
RemoveEntity(s, e) ==
  LET h == RemoveEntityH(Heap, s, e)
  IN /\ Commit(h)
     /\ ret' = Ret("remove_entity", s, e,
                   IF id[e] \in DictKeys(entities[s]) THEN "true" ELSE "false", h, parent[e])
     /\ UNCHANGED file

\* Entity.add_component(component), the component an instance of type t
AddComponent(e, t) ==
  LET h == AddComponentH(Heap, e, t)
  IN /\ Commit(h)
     /\ ret' = Ret("add_component", e, t, "ok", h, parent[e])
     /\ UNCHANGED file

\* Entity.remove_component(component_type)
RemoveComponent(e, t) ==
  LET h == RemoveComponentH(Heap, e, t)
  IN /\ Commit(h)
     /\ ret' = Ret("remove_component", e, t,
                   IF InSeq(t, components[e]) THEN "true" ELSE "false", h, parent[e])
     /\ UNCHANGED file

\* Entity.destroy(); the outcome records the parent before the call and whether the
\* entity had no child, component, parent and scene then
Destroy(e) ==
  LET h == DestroyH(Heap, e, {})
  IN /\ Commit(h)
     /\ ret' = Ret("destroy", e, None, IF h.raised THEN "raised" ELSE "ok", h,
                   [parent |-> parent[e],
                    gone |-> /\ children[e] = <<>> /\ components[e] = <<>>
                             /\ parent[e] = None /\ scene[e] = None])
     /\ UNCHANGED file

\* Entity.enable / Entity.disable: the flag, then Component.enable / disable on
\* every component, which fires on_enable / on_disable when its own flag changes
SetEnabledH(h, self, on) ==
  LET changed == {t \in Range(h.components[self]) : (t \in h.comp_enabled[self]) # on}
      hooks == SelectSeq(h.components[self], LAMBDA t : t \in changed)
  IN [h EXCEPT !.enabled[self] = on,
               !.comp_enabled[self] = IF on THEN Range(h.components[self]) ELSE {},
               !.fired = @ \o [i \in 1..Len(hooks) |->
                                <<IF on THEN "on_enable" ELSE "on_disable", self, hooks[i]>>]]

\* Entity.enable() / Entity.disable()
SetEnabled(e, on) ==
  LET h == SetEnabledH(Heap, e, on)
  IN /\ Commit(h)
     /\ ret' = Ret(IF on THEN "enable" ELSE "disable", e, None, "ok", h, parent[e])
     /\ UNCHANGED file

\* Entity.add_tag(tag)
AddTag(e, tag) ==
  LET h == [Heap EXCEPT !.tags[e] = @ \cup {tag}]
  IN /\ Commit(h)
     /\ ret' = Ret("add_tag", e, tag, "ok", h, parent[e])
     /\ UNCHANGED file

\* Entity.set_layer(layer)
SetLayer(e, l) ==
  LET h == [Heap EXCEPT !.layer[e] = l]
  IN /\ Commit(h)
     /\ ret' = Ret("set_layer", e, l, "ok", h, parent[e])
     /\ UNCHANGED file

\* ------------------------------------------------------------ persistence

\* The document is the list of its entity nodes in the order _serialize_entity
\* writes them (a node, then its children's subtrees); up is the place of the node's
\* parent node in the list, 0 for a top-level node.
RECURSIVE SerializeEntity(_, _, _, _)
RECURSIVE SerializeList(_, _, _, _)

\* the loops over root_entities (save) and entity.children (_serialize_entity)
SerializeList(list, up, acc, stack) ==
  IF list = <<>> \/ acc.raised THEN acc
  ELSE SerializeList(Tail(list), up, SerializeEntity(Head(list), up, acc, stack), stack)

\* Scene._serialize_entity; entering an entity whose serialization is running
\* recurses without end (RecursionError)
SerializeEntity(e, up, acc, stack) ==
  IF e \in stack THEN [acc EXCEPT !.raised = TRUE]
  ELSE
    LET node == [id |-> id[e], name |-> name[e], enabled |-> enabled[e],
                 tags |-> tags[e], layer |-> layer[e],
                 components |-> SelectSeq(components[e], LAMBDA t : t \in Serializable),
                 up |-> up]
        acc1 == [acc EXCEPT !.nodes = Append(@, node)]
    IN SerializeList(children[e], Len(acc1.nodes), acc1, stack \cup {e})

\* Scene.save(path): the document is built first; an exception leaves the file as it is
Save(s) ==
  LET r == SerializeList(root_entities[s], 0, [nodes |-> <<>>, raised |-> FALSE], {})
  IN /\ file' = IF r.raised THEN file ELSE Doc(r.nodes)
     /\ ret' = Ret("save", s, None, IF r.raised THEN "false" ELSE "true", Heap, None)
     /\ UNCHANGED heapVars

\* something else writes the file: a document json.load cannot parse
ExternalWrite ==
  /\ file' = Garbage
  /\ ret' = Ret("write", None, None, "ok", Heap, None)
  /\ UNCHANGED heapVars

\* the component lists of the entries of a document: T3 is a class that resolves in
\* neither namespace
ComponentLists == {<<>>, <<"T3">>, <<"T3", "T1">>}

\* node k of a document: the first node is a disabled entity with a tag on layer 1
Node(k, comps, up) ==
  [id |-> k, name |-> IF k = 1 THEN "a" ELSE "b", enabled |-> (k # 1),
   tags |-> IF k = 1 THEN Tags ELSE {}, layer |-> IF k = 1 THEN 1 ELSE 0,
   components |-> comps, up |-> up]

\* the documents of i nodes, each node a root or the child of an earlier node, with
\* the ids 1..i
DocsOfLen(i) ==
  {[k \in 1..i |-> Node(k, c[k], u[k])] :
     c \in [1..i -> ComponentLists],
     u \in {f \in [1..i -> 0..(i - 1)] : \A k \in 1..i : f[k] < k}}

\* the well-formed documents of up to MaxNodes entities
Documents == UNION {DocsOfLen(i) : i \in 1..MaxNodes}

\* something else writes the file: a well-formed document
WriteDocument(d) ==
  /\ file' = Doc(d)
  /\ ret' = Ret("write", None, None, "ok", Heap, None)
  /\ UNCHANGED heapVars

\* Scene.clear
ClearH(h, s) ==
  LET h1 == DestroyAll(h, [i \in 1..Len(h.entities[s]) |-> h.entities[s][i][2]], {})
  IN IF h1.raised THEN h1
     ELSE [h1 EXCEPT !.entities[s] = <<>>, !.root_entities[s] = <<>>]

RECURSIVE AddComponents(_, _, _)
\* the component loop without the test "if component_class": a type that does not
\* resolve makes the loop raise
AddComponentsStrict(h, e, types) ==
  IF \E i \in 1..Len(types) : types[i] \notin Resolvable
  THEN [h EXCEPT !.raised = TRUE]
  ELSE [h EXCEPT !.components[e] = types, !.comp_enabled[e] = Range(types)]

\* the component loop of _deserialize_entity: a type that does not resolve is skipped
AddComponents(h, e, types) ==
  IF types = <<>> THEN h
  ELSE AddComponents(IF Head(types) \in Resolvable
                     THEN AddComponentH(h, e, Head(types)) ELSE h,
                     e, Tail(types))

RECURSIVE DeserializeNodes(_, _, _, _, _)
\* Scene._deserialize_entity over the nodes in document order; made[i] is the entity
\* built for node i
DeserializeNodes(h, s, doc, i, made) ==
  IF i > Len(doc) THEN h
  ELSE
    LET n == doc[i]
        e == Min(FreeEntities(h))
        h1 == [NewEntityH(h, e, n.name) EXCEPT !.ids[e] = n.id, !.enabled[e] = n.enabled,
                                               !.tags[e] = n.tags, !.layer[e] = n.layer]
        h2 == AddEntityH(h1, s, e)
        h3 == IF n.up # 0 THEN AddChildH(h2, made[n.up], e) ELSE h2
        h4 == AddComponents(h3, e, n.components)
    IN DeserializeNodes(h4, s, doc, i + 1, Append(made, e))

\* Scene.load(path), after the os.path.exists check
LoadH(h, s) ==
  LET h1 == ClearH(h, s)
  IN IF h1.raised THEN h1
     ELSE IF file.kind = "garbage" THEN [h1 EXCEPT !.raised = TRUE]
     ELSE DeserializeNodes(h1, s, file.nodes, 1, <<>>)

\* Scene.load(path); the pool must hold an object for every node of the document
Load(s) ==
  /\ file.kind = "doc" =>
       LET h1 == ClearH(Heap, s)
       IN h1.raised \/ Cardinality(FreeEntities(h1)) >= Len(file.nodes)
  /\ LET h == IF file.kind = "none" THEN Heap ELSE LoadH(Heap, s)
     IN /\ Commit(h)
        /\ ret' = Ret("load", s, None,
                      IF file.kind = "none" \/ h.raised THEN "false" ELSE "true", h, None)
        /\ UNCHANGED file

\* Scene.clear()
Clear(s) ==
  LET h == ClearH(Heap, s)
  IN /\ Commit(h)
     /\ ret' = Ret("clear", s, None, IF h.raised THEN "raised" ELSE "ok", h, None)
     /\ UNCHANGED file

\* ------------------------------------------------------- component objects

\* the component objects as the entities see them
Objects == [entity |-> comp_entity, enabled |-> component_enabled, held |-> held]

\* the keys of a dict, in insertion order
KeyList(d) == [i \in 1..Len(d) |-> d[i][1]]

\* Entity.components of the heap, read off the objects: the keys, and the types whose
\* component has its own flag set
WithObjects(h, o) ==
  [h EXCEPT !.components = [e \in Ent |-> KeyList(o.held[e])],
            !.comp_enabled = [e \in Ent |->
               {k \in DictKeys(o.held[e]) : o.enabled[DictGet(o.held[e], k)]}]]

CommitObjects(h, o) ==
  /\ id' = h.ids
  /\ name' = h.name
  /\ enabled' = h.enabled
  /\ tags' = h.tags
  /\ layer' = h.layer
  /\ comp_enabled' = h.comp_enabled
  /\ parent' = h.parent
  /\ children' = h.children
  /\ scene' = h.scene
  /\ components' = h.components
  /\ entities' = h.entities
  /\ root_entities' = h.root_entities
  /\ comp_entity' = o.entity
  /\ component_enabled' = o.enabled
  /\ held' = o.held

\* Entity.add_component(component): self.components[component_type] = component;
\* component.entity = self
AddComponentObjectH(o, self, c) ==
  [o EXCEPT !.held[self] = DictSet(@, TypeOf(c), c), !.entity[c] = self]

\* Entity.remove_component(component_type): component.entity = None; del
RemoveComponentObjectH(o, self, k) ==
  IF k \in DictKeys(o.held[self])
  THEN [o EXCEPT !.entity[DictGet(o.held[self], k)] = None,
                 !.held[self] = DictDel(@, k)]
  ELSE o

\* Entity.add_component(component)
AddComponentObject(e, c) ==
  LET o == AddComponentObjectH(Objects, e, c)
  IN /\ CommitObjects(WithObjects(Heap, o), o)
     /\ ret' = [op |-> "add_component", self |-> e, arg |-> c, result |-> "ok",
                fired |-> << <<"on_add", c>> >>, was |-> None]
     /\ UNCHANGED file

\* Entity.remove_component(component_type)
RemoveComponentObject(e, k) ==
  LET o == RemoveComponentObjectH(Objects, e, k)
      present == k \in DictKeys(held[e])
  IN /\ CommitObjects(WithObjects(Heap, o), o)
     /\ ret' = [op |-> "remove_component", self |-> e, arg |-> k,
                result |-> IF present THEN "true" ELSE "false",
                fired |-> IF present THEN << <<"on_remove", DictGet(held[e], k)>> >>
                          ELSE <<>>,
                was |-> None]
     /\ UNCHANGED file

\* Component.enable() / Component.disable(): the flag and the hook, if the flag
\* changes
ComponentSetEnabled(c, on) ==
  LET o == [Objects EXCEPT !.enabled[c] = on]
  IN /\ CommitObjects(WithObjects(Heap, o), o)
     /\ ret' = [op |-> IF on THEN "component_enable" ELSE "component_disable",
                self |-> c, arg |-> None, result |-> "ok",
                fired |-> IF component_enabled[c] # on
                          THEN << <<IF on THEN "on_enable" ELSE "on_disable", c>> >>
                          ELSE <<>>,
                was |-> component_enabled]
     /\ UNCHANGED file

\* Entity.enable() / Entity.disable(): the entity's flag, then Component.enable() /
\* disable() on every value of self.components
EntitySetEnabled(e, on) ==
  LET mine == [i \in 1..Len(held[e]) |-> held[e][i][2]]
      changed == SelectSeq(mine, LAMBDA c : component_enabled[c] # on)
      o == [Objects EXCEPT !.enabled = [c \in Comp |->
                                          IF InSeq(c, mine) THEN on ELSE @[c]]]
  IN /\ CommitObjects(WithObjects([Heap EXCEPT !.enabled[e] = on], o), o)
     /\ ret' = [op |-> IF on THEN "enable" ELSE "disable", self |-> e, arg |-> None,
                result |-> "ok",
                fired |-> [i \in 1..Len(changed) |->
                             <<IF on THEN "on_enable" ELSE "on_disable", changed[i]>>],
                was |-> component_enabled]
     /\ UNCHANGED file

RECURSIVE Removals(_, _)
\* the remove_component calls of a destroy(), applied to the objects in the order
\* the calls were made
Removals(o, trace) ==
  IF trace = <<>> THEN o
  ELSE Removals(IF Head(trace)[1] = "on_remove"
                THEN RemoveComponentObjectH(o, Head(trace)[2], Head(trace)[3]) ELSE o,
                Tail(trace))

\* Entity.destroy()
DestroyObject(e) ==
  LET h == DestroyH(Heap, e, {})
      o == Removals(Objects, h.fired)
  IN /\ CommitObjects(h, o)
     /\ ret' = [op |-> "destroy", self |-> e, arg |-> None,
                result |-> IF h.raised THEN "raised" ELSE "ok",
                fired |-> h.fired, was |-> None]
     /\ UNCHANGED file

\* Component.is_enabled():
\* self.enabled and (self.entity is None or self.entity.is_enabled())
IsEnabledH(c) ==
  component_enabled[c] /\ (comp_entity[c] = None \/ enabled[comp_entity[c]])

\* Component.is_enabled()
IsEnabled(c) ==
  /\ ret' = [op |-> "is_enabled", self |-> c, arg |-> None, result |-> IsEnabledH(c),
             fired |-> <<>>, was |-> None]
  /\ UNCHANGED <<heapVars, file>>

\* ----------------------------------------------------------------- systems

RECURSIVE InsertByPriority(_, _)
\* x into a sorted list, behind every element whose priority is not greater
InsertByPriority(x, s) ==
  IF s = <<>> THEN <<x>>
  ELSE IF priority[x] < priority[Head(s)] THEN <<x>> \o s
  ELSE <<Head(s)>> \o InsertByPriority(x, Tail(s))

RECURSIVE SortByPriority(_)
\* list.sort(key=lambda s: s.priority): a stable sort
SortByPriority(s) ==
  IF s = <<>> THEN <<>>
  ELSE InsertByPriority(s[Len(s)], SortByPriority(SubSeq(s, 1, Len(s) - 1)))

\* add_system with the new system put first instead of appended
AddSystemFirst(list, system) == SortByPriority(<<system>> \o list)

\* Scene.add_system: append, then sort by priority
AddSystemH(list, system) == SortByPriority(Append(list, system))

\* Scene.add_system(system)
AddSystem(s, system) ==
  /\ Len(systems[s]) < MaxSystems
  /\ systems' = [systems EXCEPT ![s] = AddSystemH(@, system)]
  /\ registered' = [registered EXCEPT ![s] = Append(@, system)]
  /\ ret' = [op |-> "add_system", self |-> s, arg |-> system, result |-> "ok",
             fired |-> <<>>, was |-> None]
  /\ UNCHANGED <<priority, sys_enabled>>

\* Scene.remove_system(system)
RemoveSystem(s, system) ==
  /\ systems' = [systems EXCEPT ![s] = RemoveFirst(@, system)]
  /\ registered' = [registered EXCEPT ![s] = RemoveFirst(@, system)]
  /\ ret' = [op |-> "remove_system", self |-> s, arg |-> system,
             result |-> IF InSeq(system, systems[s]) THEN "true" ELSE "false",
             fired |-> <<>>, was |-> None]
  /\ UNCHANGED <<priority, sys_enabled>>

\* System.enable() / System.disable()
SetSystemEnabled(system, on) ==
  /\ sys_enabled' = [sys_enabled EXCEPT ![system] = on]
  /\ ret' = [op |-> IF on THEN "enable_system" ELSE "disable_system", self |-> system,
             arg |-> None, result |-> "ok", fired |-> <<>>, was |-> None]
  /\ UNCHANGED <<priority, systems, registered>>

RECURSIVE UpdateSystems(_, _)
\* for system in self.systems: if system.is_enabled(): system.update(delta_time)
UpdateSystems(list, dt) ==
  IF list = <<>> THEN <<>>
  ELSE (IF sys_enabled[Head(list)] THEN << <<"update", Head(list), dt>> >> ELSE <<>>)
       \o UpdateSystems(Tail(list), dt)

\* Scene.update(delta_time)
SceneUpdate(s, dt) ==
  /\ ret' = [op |-> "scene_update", self |-> s, arg |-> dt, result |-> "ok",
             fired |-> UpdateSystems(systems[s], dt), was |-> None]
  /\ UNCHANGED sysVars

\* System(): the default priority, enabled, and a scene without systems
InitDefaultSystems ==
  /\ priority = [x \in Sys |-> DefaultPriority]
  /\ sys_enabled = [x \in Sys |-> TRUE]
  /\ systems = [s \in Scenes |-> <<>>]
  /\ registered = [s \in Scenes |-> <<>>]

\* Systems whose constructors set a priority.  The objects of the pool are
\* interchangeable, so they are numbered by ascending priority; the order in which
\* they are registered is free.
InitSystems ==
  /\ priority \in {p \in [Sys -> Priorities] : \A i, j \in Sys : i < j => p[i] <= p[j]}
  /\ sys_enabled = [x \in Sys |-> TRUE]
  /\ systems = [s \in Scenes |-> <<>>]
  /\ registered = [s \in Scenes |-> <<>>]

\* ------------------------------------------------------------ ScriptSystem

RECURSIVE Instances(_)
\* the scripts in the order "for entity_id, scripts in items: for script in scripts"
\* visits them
Instances(d) == IF d = <<>> THEN <<>> ELSE Head(d)[2] \o Instances(Tail(d))

\* script.enabled and script.entity and script.entity.enabled
Eligible(scr) ==
  script_enabled[scr] /\ script_entity[scr] # None /\ enabled[script_entity[scr]]

\* the instances up to the first one of run (called one after the other) whose hook
\* cb raises
UpToRaise(run, cb) ==
  LET bad == {i \in 1..Len(run) : <<run[i], cb>> \in raising}
  IN IF bad = {} THEN run ELSE SubSeq(run, 1, Min(bad))

\* the loop without its try/except: the first hook that raises ends it
CallbacksUnguarded(cb, arg) ==
  LET run == UpToRaise(SelectSeq(Instances(script_instances), Eligible), cb)
  IN [i \in 1..Len(run) |-> <<cb, run[i], arg>>]

\* one loop over the instances: the callback cb(arg) on every eligible script, each
\* call in its own try/except, so that a hook that raises is reported and the loop
\* goes on
Callbacks(cb, arg) ==
  LET run == SelectSeq(Instances(script_instances), Eligible)
  IN [i \in 1..Len(run) |-> <<cb, run[i], arg>>]

RECURSIVE Float(_, _)
\* The float that "+=" and "-=" store for the exact result x >= 0: x itself while
\* it fits the significand, else the nearest multiple of the spacing q of the floats
\* around x, the one with the even significand when x is halfway.  Called with q = 1.
Float(x, q) ==
  IF x < q * 2 ^ MantissaBits
  THEN LET lo == (x \div q) * q
       IN IF 2 * (x - lo) < q THEN lo
          ELSE IF 2 * (x - lo) > q THEN lo + q
          ELSE IF (x \div q) % 2 = 0 THEN lo ELSE lo + q
  ELSE Float(x, 2 * q)

\* the fixed-update loop with "if" in the place of "while"
FixedLoopOnce(acc, passes, trace) ==
  IF acc >= FixedStep
  THEN [acc |-> Float(acc - FixedStep, 1), passes |-> passes + 1,
        trace |-> trace \o Callbacks("fixed_update", FixedStep), returns |-> TRUE]
  ELSE [acc |-> acc, passes |-> passes, trace |-> trace, returns |-> TRUE]

RECURSIVE FixedLoop(_, _, _)
\* while self.accumulated_time >= self.fixed_time_step: subtract one step, then
\* fixed_update(self.fixed_time_step) on every eligible script.  When the
\* subtraction stores the value it started from, every further pass repeats this
\* one and the loop does not end: the passes are followed up to the first such one.
FixedLoop(acc, passes, trace) ==
  IF acc >= FixedStep
  THEN IF Float(acc - FixedStep, 1) = acc
       THEN [acc |-> acc, passes |-> passes + 1,
             trace |-> trace \o Callbacks("fixed_update", FixedStep), returns |-> FALSE]
       ELSE FixedLoop(Float(acc - FixedStep, 1), passes + 1,
                      trace \o Callbacks("fixed_update", FixedStep))
  ELSE [acc |-> acc, passes |-> passes, trace |-> trace, returns |-> TRUE]

\* the three loops with the late one ahead of the fixed one
PhasesLateFirst(variable, fixed, late) == variable \o late \o fixed

\* the order of the three loops of update
Phases(variable, fixed, late) == variable \o fixed \o late

\* ScriptSystem.update(delta_time): nothing before initialize(); then the update
\* loop, the accumulator and the fixed-update loop, the late-update loop, which a
\* fixed-update loop that does not end never lets begin
ScriptUpdateH(dt) ==
  IF ~initialized
  THEN [acc |-> accumulated_time, passes |-> 0, trace |-> <<>>, returns |-> TRUE]
  ELSE LET fx == FixedLoop(Float(accumulated_time + dt, 1), 0, <<>>)
       IN [acc |-> fx.acc, passes |-> fx.passes,
           trace |-> Phases(Callbacks("update", dt), fx.trace,
                            IF fx.returns THEN Callbacks("late_update", dt) ELSE <<>>),
           returns |-> fx.returns]

\* the failures the except clauses of a call report: the calls whose hook raises
Reported(trace) == SelectSeq(trace, LAMBDA c : <<c[2], c[1]>> \in raising)

\* ScriptSystem.update(delta_time)
ScriptUpdate(dt) ==
  LET r == ScriptUpdateH(dt)
  IN /\ accumulated_time' = r.acc
     /\ ret' = [op |-> "script_update", self |-> None, arg |-> dt, result |-> r.passes,
                fired |-> r.trace, was |-> accumulated_time,
                reported |-> Reported(r.trace), returned |-> r.returns]
     /\ UNCHANGED <<script_entity, script_enabled, script_instances, initialized, lifeVars>>

\* ScriptSystem.initialize(): the script classes of the script paths are loaded
Initialize ==
  /\ initialized' = TRUE
  /\ ret' = [op |-> "initialize", self |-> None, arg |-> None, result |-> "ok",
             fired |-> <<>>, was |-> None]
  /\ UNCHANGED <<script_entity, script_enabled, script_instances, accumulated_time, lifeVars>>

\* a script object not yet constructed
FreeScripts == {x \in Scr : script_entity[x] = None}

\* create_script without the test of the name against self.scripts
CreateScriptAnyName(nm, e) ==
  /\ FreeScripts # {}
  /\ LET scr == Min(FreeScripts)
         old == IF id[e] \in DictKeys(script_instances)
                THEN DictGet(script_instances, id[e]) ELSE <<>>
     IN /\ script_entity' = [script_entity EXCEPT ![scr] = e]
        /\ script_enabled' = [script_enabled EXCEPT ![scr] = TRUE]
        /\ script_instances' = DictSet(script_instances, id[e], Append(old, scr))
        /\ ret' = [op |-> "create_script", self |-> e, arg |-> nm, result |-> "script",
                   fired |-> << <<"on_add", scr, None>> >>, was |-> None]
  /\ UNCHANGED <<initialized, accumulated_time, lifeVars>>

\* ScriptSystem.create_script(script_name, entity): the instance is appended to the
\* list of the entity before on_add() is called; if on_add() raises, the except
\* clause reports it and None is returned
CreateScript(nm, e) ==
  IF ~initialized \/ nm \notin Loadable
  THEN /\ ret' = [op |-> "create_script", self |-> e, arg |-> nm, result |-> "none",
                  fired |-> <<>>, was |-> None]
       /\ UNCHANGED scriptVars
  ELSE /\ FreeScripts # {}
       /\ LET scr == Min(FreeScripts)
              old == IF id[e] \in DictKeys(script_instances)
                     THEN DictGet(script_instances, id[e]) ELSE <<>>
          IN /\ script_entity' = [script_entity EXCEPT ![scr] = e]
             /\ script_enabled' = [script_enabled EXCEPT ![scr] = TRUE]
             /\ script_instances' = DictSet(script_instances, id[e], Append(old, scr))
             /\ ret' = [op |-> "create_script", self |-> e, arg |-> nm,
                        result |-> IF <<scr, "on_add">> \in raising THEN "none"
                                   ELSE "script",
                        fired |-> << <<"on_add", scr, None>> >>, was |-> None]
       /\ UNCHANGED <<initialized, accumulated_time, lifeVars>>

\* the on_add hook of the class the next script is made of raises: what the
\* script's code does when it is called is not the scheduler's to decide
SetOnAddRaising(scr) ==
  /\ script_entity[scr] = None
  /\ raising' = raising \cup {<<scr, "on_add">>}
  /\ ret' = [op |-> "set_raising", self |-> scr, arg |-> "on_add", result |-> "ok",
             fired |-> <<>>, was |-> None]
  /\ UNCHANGED <<script_entity, script_enabled, script_instances, initialized,
                 accumulated_time, starts, detached>>

\* script.enabled = on
SetScriptEnabled(scr, on) ==
  /\ script_entity[scr] # None
  /\ script_enabled' = [script_enabled EXCEPT ![scr] = on]
  /\ ret' = [op |-> IF on THEN "enable_script" ELSE "disable_script", self |-> scr,
             arg |-> None, result |-> "ok", fired |-> <<>>, was |-> None]
  /\ UNCHANGED <<script_entity, script_instances, initialized, accumulated_time, lifeVars>>

\* a hook of a script starts or stops raising: what the script's code does when it
\* is called is not the scheduler's to decide
SetRaising(scr, hook, on) ==
  /\ script_entity[scr] # None
  /\ raising' = IF on THEN raising \cup {<<scr, hook>>} ELSE raising \ {<<scr, hook>>}
  /\ ret' = [op |-> "set_raising", self |-> scr, arg |-> hook, result |-> "ok",
             fired |-> <<>>, was |-> None]
  /\ UNCHANGED <<script_entity, script_enabled, script_instances, initialized,
                 accumulated_time, starts, detached>>

\* the instance list of an entity id: script_instances[entity_id], or no list
ScriptsOf(k) ==
  IF k \in DictKeys(script_instances) THEN DictGet(script_instances, k) ELSE <<>>

\* the start() calls of start_scripts(scene): for each entry of the dict, the
\* entity scene.get_entity(entity_id) finds, if it is enabled, and then every
\* script of the entry whose own flag is set; each call in its own try/except
StartScriptsH(s) ==
  LET found(k) == k \in DictKeys(entities[s]) /\ enabled[DictGet(entities[s], k)]
      run == SelectSeq(Instances(SelectSeq(script_instances, LAMBDA p : found(p[1]))),
                       LAMBDA x : script_enabled[x])
  IN [i \in 1..Len(run) |-> <<"start", run[i], None>>]

\* ScriptSystem.start_scripts(scene): nothing before initialize()
StartScripts(s) ==
  LET trace == IF initialized THEN StartScriptsH(s) ELSE <<>>
  IN /\ \A x \in Scr : starts[x] < MaxStarts
     /\ starts' = [x \in Scr |-> starts[x] + Count(<<"start", x, None>>, trace)]
     /\ ret' = [op |-> "start_scripts", self |-> s, arg |-> None, result |-> "ok",
                fired |-> trace, was |-> None]
     /\ UNCHANGED <<script_entity, script_enabled, script_instances, initialized,
                    accumulated_time, raising, detached>>

\* the body the six entry points share: if entity_a.id in self.script_instances,
\* the hook, with entity_b, on every script of that list whose own flag is set; each
\* call in its own try/except
CollisionH(hook, entity_a, entity_b) ==
  LET run == SelectSeq(ScriptsOf(id[entity_a]), LAMBDA x : script_enabled[x])
  IN [i \in 1..Len(run) |-> <<hook, run[i], entity_b>>]

\* ScriptSystem.on_collision_enter(entity_a, entity_b) and its five siblings:
\* nothing before initialize()
Collision(hook, entity_a, entity_b) ==
  LET trace == IF initialized THEN CollisionH(hook, entity_a, entity_b) ELSE <<>>
  IN /\ ret' = [op |-> hook, self |-> entity_a, arg |-> entity_b, result |-> "ok",
                fired |-> trace, was |-> None, reported |-> Reported(trace)]
     /\ UNCHANGED scriptVars

\* remove_script that calls on_remove() and leaves the script in the list
RemoveScriptKeep(list, scr) == list

\* the list remove_script leaves: self.script_instances[entity.id].remove(script)
RemoveScriptH(list, scr) == RemoveFirst(list, scr)

\* ScriptSystem.remove_script(entity, script): False before initialize(), for an
\* entity without a list, for a script not in the list; else on_remove(), which is
\* not guarded (if it raises, the script stays in the list), and the removal
RemoveScript(e, scr) ==
  LET list == ScriptsOf(id[e])
      ok == initialized /\ id[e] \in DictKeys(script_instances) /\ InSeq(scr, list)
      fails == <<scr, "on_remove">> \in raising
  IN /\ script_instances' = IF ok /\ ~fails
                            THEN DictSet(script_instances, id[e], RemoveScriptH(list, scr))
                            ELSE script_instances
     /\ detached' = IF ok /\ ~fails THEN detached \cup {scr} ELSE detached
     /\ ret' = [op |-> "remove_script", self |-> e, arg |-> scr,
                result |-> IF ~ok THEN "false" ELSE IF fails THEN "raised" ELSE "true",
                fired |-> IF ok THEN << <<"on_remove", scr, None>> >> ELSE <<>>,
                was |-> None]
     /\ UNCHANGED <<script_entity, script_enabled, initialized, accumulated_time,
                    raising, starts>>

\* ScriptSystem.remove_all_scripts(entity): on_remove() on every script of the list,
\* not guarded, then the list is cleared and its key deleted
RemoveAllScripts(e) ==
  LET list == ScriptsOf(id[e])
      ok == initialized /\ id[e] \in DictKeys(script_instances)
      run == UpToRaise(list, "on_remove")
      fails == \E i \in 1..Len(list) : <<list[i], "on_remove">> \in raising
  IN /\ script_instances' = IF ok /\ ~fails THEN DictDel(script_instances, id[e])
                            ELSE script_instances
     /\ detached' = IF ok /\ ~fails THEN detached \cup Range(list) ELSE detached
     /\ ret' = [op |-> "remove_all_scripts", self |-> e, arg |-> None,
                result |-> IF ~ok THEN "false" ELSE IF fails THEN "raised" ELSE "true",
                fired |-> IF ok THEN [i \in 1..Len(run) |-> <<"on_remove", run[i], None>>]
                          ELSE <<>>,
                was |-> None]
     /\ UNCHANGED <<script_entity, script_enabled, initialized, accumulated_time,
                    raising, starts>>

\* ScriptSystem.on_entity_destroy(entity): on_destroy() on every script of the list,
\* each call in its own try/except, then the list is cleared and its key deleted
OnEntityDestroy(e) ==
  LET list == ScriptsOf(id[e])
      ok == initialized /\ id[e] \in DictKeys(script_instances)
  IN /\ script_instances' = IF ok THEN DictDel(script_instances, id[e])
                            ELSE script_instances
     /\ detached' = IF ok THEN detached \cup Range(list) ELSE detached
     /\ ret' = [op |-> "on_entity_destroy", self |-> e, arg |-> None, result |-> "ok",
                fired |-> IF ok THEN [i \in 1..Len(list) |-> <<"on_destroy", list[i], None>>]
                          ELSE <<>>,
                was |-> None]
     /\ UNCHANGED <<script_entity, script_enabled, initialized, accumulated_time,
                    raising, starts>>

RECURSIVE TeardownLoop(_, _, _, _, _, _)
\* "for script in self.script_instances[entity_id]: script.<hook>()", the loop of
\* remove_all_scripts and of on_entity_destroy, when the hook of one script calls
\* remove_script(entity, victim): the loop walks the list itself, by position, so a
\* script taken out of it moves the ones behind it one place ahead
TeardownLoop(list, i, hook, remover, victim, trace) ==
  IF i > Len(list) THEN trace
  ELSE LET reenters == list[i] = remover /\ InSeq(victim, list)
       IN TeardownLoop(IF reenters THEN RemoveScriptH(list, victim) ELSE list,
                       i + 1, hook, remover, victim,
                       trace \o << <<hook, list[i], None>> >>
                             \o (IF reenters THEN << <<"on_remove", victim, None>> >>
                                  ELSE <<>>))

\* ScriptSystem.remove_all_scripts(entity) and ScriptSystem.on_entity_destroy(entity)
\* with scripts whose hooks do not raise and where the teardown hook of one script,
\* the remover, re-enters the script system with remove_script(entity, victim);
\* the outcome records the list the call found
Teardown(op, e, remover, victim) ==
  LET list == ScriptsOf(id[e])
      ok == initialized /\ id[e] \in DictKeys(script_instances)
      hook == IF op = "on_entity_destroy" THEN "on_destroy" ELSE "on_remove"
  IN /\ remover # victim
     /\ raising = {}
     /\ script_instances' = IF ok THEN DictDel(script_instances, id[e])
                            ELSE script_instances
     /\ detached' = IF ok THEN detached \cup Range(list) ELSE detached
     /\ ret' = [op |-> op, self |-> e, arg |-> <<remover, victim>>,
                result |-> IF ok THEN "true" ELSE "false",
                fired |-> IF ok THEN TeardownLoop(list, 1, hook, remover, victim, <<>>)
                          ELSE <<>>,
                was |-> list]
     /\ UNCHANGED <<script_entity, script_enabled, initialized, accumulated_time,
                    raising, starts>>

RECURSIVE FrameLoop(_, _, _, _, _)
\* "for script in scripts: if script.enabled and script.entity and
\* script.entity.enabled: script.update(delta_time)", the inner loop of update over
\* the list of one entity, when the update hook of one script calls
\* remove_script(entity, victim): the loop walks the list itself, by position
FrameLoop(list, i, remover, victim, trace) ==
  IF i > Len(list) THEN [list |-> list, trace |-> trace]
  ELSE LET called == Eligible(list[i])
           reenters == called /\ list[i] = remover /\ InSeq(victim, list)
       IN FrameLoop(IF reenters THEN RemoveScriptH(list, victim) ELSE list,
                    i + 1, remover, victim,
                    trace \o (IF called THEN << <<"update", list[i], 0>> >> ELSE <<>>)
                          \o (IF reenters THEN << <<"on_remove", victim, None>> >>
                               ELSE <<>>))

\* ScriptSystem.update(0) with scripts whose hooks do not raise and where the update
\* hook of one script, the remover, re-enters the script system with
\* remove_script(entity, victim).  The outer loop walks a copy of the dict's items,
\* each of which is the list itself; no time is added, so the fixed-update loop makes
\* no pass; the late loop walks the lists the update loop has left.
ReentrantUpdate(remover, victim) ==
  LET walk == [k \in 1..Len(script_instances) |->
                 FrameLoop(script_instances[k][2], 1, remover, victim, <<>>)]
      left == [k \in 1..Len(script_instances) |->
                 <<script_instances[k][1], walk[k].list>>]
      late == SelectSeq(Instances(left), Eligible)
      trace == Instances([k \in 1..Len(script_instances) |-> <<k, walk[k].trace>>])
                 \o [i \in 1..Len(late) |-> <<"late_update", late[i], 0>>]
  IN /\ initialized
     /\ raising = {}
     /\ accumulated_time < FixedStep
     /\ script_instances' = left
     /\ detached' = detached \cup (Range(Instances(script_instances)) \ Range(Instances(left)))
     /\ ret' = [op |-> "script_update", self |-> None, arg |-> 0, result |-> 0,
                fired |-> trace, was |-> accumulated_time, reported |-> <<>>,
                returned |-> TRUE]
     /\ UNCHANGED <<script_entity, script_enabled, initialized, accumulated_time,
                    raising, starts>>

\* ScriptSystem(): no instances, not initialized, an empty accumulator
InitScripts ==
  /\ script_entity = [x \in Scr |-> None]
  /\ script_enabled = [x \in Scr |-> TRUE]
  /\ script_instances = <<>>
  /\ initialized = FALSE
  /\ accumulated_time = 0
  /\ raising = {}
  /\ starts = [x \in Scr |-> 0]
  /\ detached = {}

\* ------------------------------------------------------------ SceneManager

\* a Scene object not yet constructed
FreeScenes == {s \in Scenes : scene_id[s] = None}

\* the ids of scenes: those set_active_scene and remove_scene are called with
SceneIds == 1..NumScenes

\* uuid.uuid4() in Scene.__init__: an id no scene has
FreshSceneId == Min(SceneIds \ {scene_id[s] : s \in Scenes})

\* the outcome of a manager call, with the active reference before it
MgrRet(op, arg, result, fired) ==
  [op |-> op, self |-> None, arg |-> arg, result |-> result, fired |-> fired,
   was |-> active_scene]

\* SceneManager.add_scene(scene): self.scenes[scene.id] = scene
AddSceneH(d, s, k) == DictSet(d, k, s)

\* SceneManager.create_scene(name)
CreateScene ==
  /\ FreeScenes # {}
  /\ LET s == Min(FreeScenes)
         k == FreshSceneId
     IN /\ scene_id' = [scene_id EXCEPT ![s] = k]
        /\ active' = [active EXCEPT ![s] = FALSE]
        /\ scenes' = AddSceneH(scenes, s, k)
        /\ ret' = MgrRet("create_scene", None, s, <<>>)
  /\ UNCHANGED active_scene

\* SceneManager.add_scene(scene), for a scene that exists
AddScene(s) ==
  /\ scene_id[s] # None
  /\ scenes' = AddSceneH(scenes, s, scene_id[s])
  /\ ret' = MgrRet("add_scene", s, s, <<>>)
  /\ UNCHANGED <<scene_id, active, active_scene>>

\* SceneManager.remove_scene(scene_id)
RemoveScene(k) ==
  IF k \in DictKeys(scenes)
  THEN /\ active_scene' = IF DictGet(scenes, k) = active_scene THEN None ELSE active_scene
       /\ scenes' = DictDel(scenes, k)
       /\ ret' = MgrRet("remove_scene", k, "true", <<>>)
       /\ UNCHANGED <<scene_id, active>>
  ELSE /\ ret' = MgrRet("remove_scene", k, "false", <<>>)
       /\ UNCHANGED mgrVars

\* set_active_scene that activates the requested scene and deactivates nothing
SetActiveNoDeactivate(flags, k) == [flags EXCEPT ![DictGet(scenes, k)] = TRUE]

\* the flags after set_active_scene(k) of a registered id: deactivate() on the active
\* scene if there is one, then activate() on the requested scene
SetActiveH(flags, k) ==
  LET off == IF active_scene # None THEN [flags EXCEPT ![active_scene] = FALSE] ELSE flags
  IN [off EXCEPT ![DictGet(scenes, k)] = TRUE]

\* set_active_scene that on an unknown id deactivates the active scene and drops
\* the reference
SetActiveOrNone(k) ==
  IF k \in DictKeys(scenes)
  THEN /\ active' = SetActiveH(active, k)
       /\ active_scene' = DictGet(scenes, k)
       /\ ret' = MgrRet("set_active_scene", k, "true", <<>>)
       /\ UNCHANGED <<scene_id, scenes>>
  ELSE /\ active' = [s \in Scenes |-> active[s] /\ s # active_scene]
       /\ active_scene' = None
       /\ ret' = MgrRet("set_active_scene", k, "false", <<>>)
       /\ UNCHANGED <<scene_id, scenes>>

\* SceneManager.set_active_scene(scene_id)
SetActiveScene(k) ==
  IF k \in DictKeys(scenes)
  THEN /\ active' = SetActiveH(active, k)
       /\ active_scene' = DictGet(scenes, k)
       /\ ret' = MgrRet("set_active_scene", k, "true", <<>>)
       /\ UNCHANGED <<scene_id, scenes>>
  ELSE /\ ret' = MgrRet("set_active_scene", k, "false", <<>>)
       /\ UNCHANGED mgrVars

\* SceneManager.load_scene(path), the file at the path being a document without
\* entities that holds the scene id k (a document save_scene wrote for a scene of
\* this id), or (k = None) no file or one that does not load: Scene(), load (which
\* takes the id of the document), add_scene
LoadScene(k) ==
  IF k = None
  THEN /\ ret' = MgrRet("load_scene", k, None, <<>>)
       /\ UNCHANGED mgrVars
  ELSE /\ FreeScenes # {}
       /\ LET s == Min(FreeScenes)
          IN /\ scene_id' = [scene_id EXCEPT ![s] = k]
             /\ active' = [active EXCEPT ![s] = FALSE]
             /\ scenes' = AddSceneH(scenes, s, k)
             /\ ret' = MgrRet("load_scene", k, s, <<>>)
       /\ UNCHANGED active_scene

\* SceneManager.reload_scene(scene_id), the file at the scene's path being a document
\* without entities that holds the scene id d (a document save wrote there for a
\* scene of this id), or (d = None) the scene having no path or no file there: False
\* for an id that is no key; else Scene.load, which clears the scene and takes the
\* id of the document
ReloadScene(k, d) ==
  IF k \notin DictKeys(scenes) \/ d = None
  THEN /\ ret' = MgrRet("reload_scene", k, "false", <<>>)
       /\ UNCHANGED <<mgrVars, heapVars>>
  ELSE LET s == DictGet(scenes, k)
           h == ClearH(Heap, s)
       IN /\ Commit(h)
          /\ scene_id' = IF h.raised THEN scene_id ELSE [scene_id EXCEPT ![s] = d]
          /\ ret' = MgrRet("reload_scene", k, IF h.raised THEN "false" ELSE "true", h.fired)
          /\ UNCHANGED <<active, scenes, active_scene>>

RECURSIVE ClearScenes(_, _)
\* for scene in list(self.scenes.values()): scene.clear()
ClearScenes(h, list) ==
  IF list = <<>> \/ h.raised THEN h
  ELSE ClearScenes(ClearH(h, Head(list)), Tail(list))

\* SceneManager.clear()
ManagerClear ==
  LET h == ClearScenes(Heap, [i \in 1..Len(scenes) |-> scenes[i][2]])
  IN /\ Commit(h)
     /\ scenes' = IF h.raised THEN scenes ELSE <<>>
     /\ active_scene' = IF h.raised THEN active_scene ELSE None
     /\ ret' = MgrRet("clear", None, IF h.raised THEN "raised" ELSE "ok", h.fired)
     /\ UNCHANGED <<scene_id, active>>

\* update forwarded to every scene of the registry
UpdateEveryScene(dt) ==
  [i \in 1..Len(scenes) |-> <<"scene_update", scenes[i][2], dt>>]

\* SceneManager.update(delta_time): the calls of Scene.update it makes
ManagerUpdateH(dt) ==
  IF active_scene # None THEN << <<"scene_update", active_scene, dt>> >> ELSE <<>>

\* SceneManager.update(delta_time): Scene.update(dt) of the active scene, which
\* updates its systems
ManagerUpdate(dt) ==
  LET calls_made == ManagerUpdateH(dt)
      inner == IF calls_made = <<>> THEN <<>> ELSE UpdateSystems(systems[calls_made[1][2]], dt)
  IN /\ ret' = MgrRet("manager_update", dt, "ok", calls_made \o inner)
     /\ UNCHANGED mgrVars

\* SceneManager(): no scene, none active.  One Scene() exists, built by the caller:
\* it has its id and is not active.
InitManager ==
  /\ scene_id = [s \in Scenes |-> IF s = Main THEN Main ELSE None]
  /\ active = [s \in Scenes |-> FALSE]
  /\ scenes = <<>>
  /\ active_scene = None

Init == InitEntities /\ InitDefaultSystems /\ InitScripts /\ InitManager

\* ------------------------------------------- the hierarchy alone (C1)

TreeNext ==
  \/ \E a, b \in Ent : AddChild(a, b) /\ UNCHANGED <<calls, sysVars, scriptVars, mgrVars>>
  \/ \E a, b \in Ent : RemoveChild(a, b) /\ UNCHANGED <<calls, sysVars, scriptVars, mgrVars>>

SpecTree == Init /\ [][TreeNext]_vars

\* ------------------------------------------- a scene and its entities

\* every sequence of at most MaxCalls calls
Call == calls < MaxCalls /\ calls' = calls + 1 /\ UNCHANGED <<sysVars, scriptVars, mgrVars>>

SceneNext ==
  \/ Call /\ CreateEntity(Main, DefaultName)
  \/ \E e \in Ent : Call /\ AddEntity(Main, e)
  \/ \E e \in Ent : Call /\ RemoveEntity(Main, e)
  \/ \E a, b \in Ent : Call /\ AddChild(a, b)
  \/ \E a, b \in Ent : Call /\ RemoveChild(a, b)
  \/ \E e \in Ent, t \in CompTypes : Call /\ AddComponent(e, t)
  \/ \E e \in Ent, t \in CompTypes : Call /\ RemoveComponent(e, t)
  \/ \E e \in Ent : Call /\ Destroy(e)

Spec == Init /\ [][SceneNext]_vars

\* ------------------------------------------- a scene and its document

SaveNext ==
  \/ \E nm \in Names : Call /\ CreateEntity(Main, nm)
  \/ \E a, b \in Ent : Call /\ AddChild(a, b)
  \/ \E e \in Ent, on \in BOOLEAN : Call /\ SetEnabled(e, on)
  \/ \E e \in Ent, tag \in Tags : Call /\ AddTag(e, tag)
  \/ \E e \in Ent, l \in Layers : Call /\ SetLayer(e, l)
  \/ Call /\ Save(Main)
  \/ Call /\ Load(Main)
  \/ Call /\ Clear(Main)
  \/ Call /\ ExternalWrite

SpecSave == Init /\ [][SaveNext]_vars

\* ------------------------------------------- a scene and its systems

\* enable() and disable() are followed on the systems of the list, the only ones
\* update looks at
SystemNext ==
  \/ \E x \in Sys :
       AddSystem(Main, x) /\ UNCHANGED <<heapVars, scriptVars, mgrVars, file, calls>>
  \/ \E x \in Sys :
       RemoveSystem(Main, x) /\ UNCHANGED <<heapVars, scriptVars, mgrVars, file, calls>>
  \/ \E x \in Range(systems[Main]), on \in BOOLEAN :
       SetSystemEnabled(x, on) /\ UNCHANGED <<heapVars, scriptVars, mgrVars, file, calls>>
  \/ \E dt \in 1..2 :
       SceneUpdate(Main, dt) /\ UNCHANGED <<heapVars, scriptVars, mgrVars, file, calls>>

\* systems with priorities, no entity and no script yet
InitPrioritized == InitEntities /\ InitSystems /\ InitScripts /\ InitManager

SpecSystems == InitPrioritized /\ [][SystemNext]_vars

\* ------------------------------------------- the script system

\* Entity.enable() and disable() are followed on the entities that hold a script,
\* the only ones update looks at
ScriptNext ==
  \/ Initialize /\ UNCHANGED <<heapVars, sysVars, mgrVars, file, calls>>
  \/ \E nm \in ScriptNames, e \in Ent :
       CreateScript(nm, e) /\ UNCHANGED <<heapVars, sysVars, mgrVars, file, calls>>
  \/ \E x \in Scr, on \in BOOLEAN :
       SetScriptEnabled(x, on) /\ UNCHANGED <<heapVars, sysVars, mgrVars, file, calls>>
  \/ \E e \in {script_entity[x] : x \in Scr} \ {None}, on \in BOOLEAN :
       SetEnabled(e, on) /\ UNCHANGED <<sysVars, scriptVars, mgrVars, calls>>
  \/ \E dt \in Dts : ScriptUpdate(dt) /\ UNCHANGED <<heapVars, sysVars, mgrVars, file, calls>>

SpecScripts == Init /\ [][ScriptNext]_vars

\* ------------------------------------------- scripts whose update raises

FaultNext ==
  \/ Initialize /\ UNCHANGED <<heapVars, sysVars, mgrVars, file, calls>>
  \/ \E e \in Ent :
       CreateScript("S", e) /\ UNCHANGED <<heapVars, sysVars, mgrVars, file, calls>>
  \/ \E x \in Scr, on \in BOOLEAN :
       SetScriptEnabled(x, on) /\ UNCHANGED <<heapVars, sysVars, mgrVars, file, calls>>
  \/ \E x \in Scr, on \in BOOLEAN :
       SetRaising(x, "update", on) /\ UNCHANGED <<heapVars, sysVars, mgrVars, file, calls>>
  \/ \E dt \in Dts : ScriptUpdate(dt) /\ UNCHANGED <<heapVars, sysVars, mgrVars, file, calls>>

SpecFaults == Init /\ [][FaultNext]_vars

\* ------------------------------------------- frames of any length

\* the frames of a script system whose scripts' hooks may raise, where a frame may
\* be very long; nothing is called while a call of update has not returned
LongFrameNext ==
  \/ /\ ret.op = "script_update" => ret.returned
     /\ Initialize /\ UNCHANGED <<heapVars, sysVars, mgrVars, file, calls>>
  \/ \E e \in Ent :
       /\ ret.op = "script_update" => ret.returned
       /\ CreateScript("S", e) /\ UNCHANGED <<heapVars, sysVars, mgrVars, file, calls>>
  \/ \E x \in Scr, hook \in {"update", "fixed_update", "late_update"}, on \in BOOLEAN :
       /\ ret.op = "script_update" => ret.returned
       /\ SetRaising(x, hook, on) /\ UNCHANGED <<heapVars, sysVars, mgrVars, file, calls>>
  \/ \E dt \in Dts \cup {LongFrame} :
       /\ ret.op = "script_update" => ret.returned
       /\ ScriptUpdate(dt) /\ UNCHANGED <<heapVars, sysVars, mgrVars, file, calls>>

SpecLongFrames == Init /\ [][LongFrameNext]_vars

\* ------------------------------------------- the scene manager

ManagerNext ==
  \/ CreateScene /\ UNCHANGED <<heapVars, sysVars, scriptVars, file, calls>>
  \/ \E s \in Scenes :
       AddScene(s) /\ UNCHANGED <<heapVars, sysVars, scriptVars, file, calls>>
  \/ \E k \in SceneIds :
       RemoveScene(k) /\ UNCHANGED <<heapVars, sysVars, scriptVars, file, calls>>
  \/ \E k \in SceneIds :
       SetActiveScene(k) /\ UNCHANGED <<heapVars, sysVars, scriptVars, file, calls>>
  \/ \E k \in ({scene_id[s] : s \in Scenes} \ {None}) \cup {None} :
       LoadScene(k) /\ UNCHANGED <<heapVars, sysVars, scriptVars, file, calls>>
  \/ ManagerClear /\ UNCHANGED <<sysVars, scriptVars, file, calls>>
  \/ \E dt \in 1..2 :
       ManagerUpdate(dt) /\ UNCHANGED <<heapVars, sysVars, scriptVars, file, calls>>

SpecManager == Init /\ [][ManagerNext]_vars

\* ------------------------------------------- the life of a script

\* one more call of a bounded run
Tick == calls < MaxCalls /\ calls' = calls + 1

\* entities are created in the scene, scripts attached to them, flags switched, and
\* the scripts started, updated and sent collisions
LifeNext ==
  \/ Tick /\ CreateEntity(Main, DefaultName) /\ UNCHANGED <<sysVars, scriptVars, mgrVars>>
  \/ Tick /\ Initialize /\ UNCHANGED <<heapVars, sysVars, mgrVars, file>>
  \/ \E e \in Ent :
       Tick /\ CreateScript("S", e) /\ UNCHANGED <<heapVars, sysVars, mgrVars, file>>
  \/ \E x \in Scr, on \in BOOLEAN :
       Tick /\ SetScriptEnabled(x, on) /\ UNCHANGED <<heapVars, sysVars, mgrVars, file>>
  \/ \E e \in {script_entity[x] : x \in Scr} \ {None}, on \in BOOLEAN :
       Tick /\ SetEnabled(e, on) /\ UNCHANGED <<sysVars, scriptVars, mgrVars>>
  \/ Tick /\ StartScripts(Main) /\ UNCHANGED <<heapVars, sysVars, mgrVars, file>>
  \/ \E dt \in Dts :
       Tick /\ ScriptUpdate(dt) /\ UNCHANGED <<heapVars, sysVars, mgrVars, file>>
  \/ \E hook \in CollisionHooks, a, b \in Ent :
       Tick /\ Collision(hook, a, b) /\ UNCHANGED <<heapVars, sysVars, mgrVars, file>>

SpecLife == Init /\ [][LifeNext]_vars

\* ------------------------------------------- scripts that are taken off

\* the entity a collision of a is reported with: the next one of the pool
Other(a) == IF a = NumEntities THEN 1 ELSE a + 1

\* scripts are attached and taken off again by each of the three ways, among starts,
\* frames and collisions, in runs of MaxCalls calls
DetachNext ==
  \/ Tick /\ CreateEntity(Main, DefaultName) /\ UNCHANGED <<sysVars, scriptVars, mgrVars>>
  \/ Tick /\ Initialize /\ UNCHANGED <<heapVars, sysVars, mgrVars, file>>
  \/ \E e \in Ent :
       Tick /\ CreateScript("S", e) /\ UNCHANGED <<heapVars, sysVars, mgrVars, file>>
  \/ \E e \in Ent, x \in Scr :
       Tick /\ RemoveScript(e, x) /\ UNCHANGED <<heapVars, sysVars, mgrVars, file>>
  \/ \E e \in Ent :
       Tick /\ RemoveAllScripts(e) /\ UNCHANGED <<heapVars, sysVars, mgrVars, file>>
  \/ \E e \in Ent :
       Tick /\ OnEntityDestroy(e) /\ UNCHANGED <<heapVars, sysVars, mgrVars, file>>
  \/ Tick /\ StartScripts(Main) /\ UNCHANGED <<heapVars, sysVars, mgrVars, file>>
  \/ Tick /\ ScriptUpdate(FixedStep) /\ UNCHANGED <<heapVars, sysVars, mgrVars, file>>
  \/ \E hook \in CollisionHooks, a \in Ent :
       Tick /\ Collision(hook, a, Other(a)) /\ UNCHANGED <<heapVars, sysVars, mgrVars, file>>

SpecDetach == Init /\ [][DetachNext]_vars

\* ------------------------------------------- scripts across a reload

\* one more call of a run of MaxReload calls
ReloadTick == calls < MaxReload /\ calls' = calls + 1

\* the scene is saved and loaded again while scripts are attached to its entities,
\* scripts are attached to the loaded entities, and collisions are reported
ReloadNext ==
  \/ ReloadTick /\ CreateEntity(Main, DefaultName)
       /\ UNCHANGED <<sysVars, scriptVars, mgrVars>>
  \/ ReloadTick /\ Initialize /\ UNCHANGED <<heapVars, sysVars, mgrVars, file>>
  \/ \E e \in Ent :
       ReloadTick /\ CreateScript("S", e) /\ UNCHANGED <<heapVars, sysVars, mgrVars, file>>
  \/ \E x \in Scr, on \in BOOLEAN :
       ReloadTick /\ SetScriptEnabled(x, on)
         /\ UNCHANGED <<heapVars, sysVars, mgrVars, file>>
  \/ ReloadTick /\ Save(Main) /\ UNCHANGED <<sysVars, scriptVars, mgrVars>>
  \/ ReloadTick /\ Load(Main) /\ UNCHANGED <<sysVars, scriptVars, mgrVars>>
  \/ \E hook \in CollisionHooks, a \in Ent :
       ReloadTick /\ Collision(hook, a, Other(a))
         /\ UNCHANGED <<heapVars, sysVars, mgrVars, file>>
  \/ \E e \in Ent :
       ReloadTick /\ OnEntityDestroy(e) /\ UNCHANGED <<heapVars, sysVars, mgrVars, file>>

SpecReload == Init /\ [][ReloadNext]_vars

\* ------------------------------------------- component objects

\* component objects are put on entities, taken off, switched on and off one by one
\* or through their entity, and asked whether they are enabled, in runs of MaxCalls
\* calls
ComponentNext ==
  \/ \E e \in Ent, c \in Comp :
       Call /\ AddComponentObject(e, c)
  \/ \E e \in Ent, k \in CompTypes :
       Call /\ RemoveComponentObject(e, k)
  \/ \E c \in Comp, on \in BOOLEAN :
       Call /\ ComponentSetEnabled(c, on)
  \/ \E e \in Ent, on \in BOOLEAN :
       Call /\ EntitySetEnabled(e, on)
  \/ \E e \in Ent :
       Call /\ DestroyObject(e)
  \/ \E c \in Comp :
       Call /\ IsEnabled(c)

SpecComponents == Init /\ [][ComponentNext]_vars

\* ------------------------------------------- entities among several scenes

\* entities are created in, added to and removed from any of the scenes, and
\* destroyed, in runs of MaxCalls calls
ScenesNext ==
  \/ \E s \in Scenes : Call /\ CreateEntity(s, DefaultName)
  \/ \E s \in Scenes, e \in Ent : Call /\ AddEntity(s, e)
  \/ \E s \in Scenes, e \in Ent : Call /\ RemoveEntity(s, e)
  \/ \E e \in Ent : Call /\ Destroy(e)

SpecScenes == Init /\ [][ScenesNext]_vars

\* ------------------------------------------- children and components

\* one more call of a run of MaxParts calls
PartsTick == calls < MaxParts /\ calls' = calls + 1 /\ UNCHANGED <<sysVars, scriptVars, mgrVars>>

\* children and components are added to and removed from entities that are in no
\* scene, in runs of MaxParts calls
PartsNext ==
  \/ \E a, b \in Ent : PartsTick /\ AddChild(a, b)
  \/ \E a, b \in Ent : PartsTick /\ RemoveChild(a, b)
  \/ \E e \in Ent, t \in CompTypes : PartsTick /\ AddComponent(e, t)
  \/ \E e \in Ent, t \in CompTypes : PartsTick /\ RemoveComponent(e, t)

SpecParts == Init /\ [][PartsNext]_vars

\* ------------------------------------------- documents with unknown components

\* documents are written to the path and loaded into the scene
DocumentNext ==
  \/ \E d \in Documents :
       WriteDocument(d) /\ UNCHANGED <<sysVars, scriptVars, mgrVars, calls>>
  \/ Load(Main) /\ UNCHANGED <<sysVars, scriptVars, mgrVars, calls>>

SpecDocuments == Init /\ [][DocumentNext]_vars

\* ------------------------------------------- entities that are destroyed

\* one more call of a run of MaxDestroy calls
DestroyTick ==
  calls < MaxDestroy /\ calls' = calls + 1 /\ UNCHANGED <<sysVars, scriptVars, mgrVars>>

\* entities are created in the scene, given children and components, and destroyed
\* one by one or by clear(); nothing else takes an entity out of the scene
DestroyNext ==
  \/ DestroyTick /\ CreateEntity(Main, "a")
  \/ \E a, b \in Ent : DestroyTick /\ AddChild(a, b)
  \/ \E e \in Ent, t \in CompTypes : DestroyTick /\ AddComponent(e, t)
  \/ \E e \in Ent : DestroyTick /\ Destroy(e)
  \/ DestroyTick /\ Clear(Main)

SpecDestroy == Init /\ [][DestroyNext]_vars

\* ------------------------------------------- hierarchies that are destroyed

\* The hierarchies add_child builds when every entity is given, in turn, no parent,
\* an earlier entity or itself as its parent (each is then once in that parent's
\* children), with the components add_component has put on some of the entities
\* and with the first few entities then registered in the scene by add_entity, which
\* lists those without a parent as roots.
InitFamilies ==
  /\ InitDefaultSystems /\ InitScripts /\ InitManager
  /\ \E par \in [Ent -> Ent \cup {None}], owners \in SUBSET Ent, last \in Ent \cup {None} :
       LET all == [e \in Ent |-> e]
           listed == SubSeq(all, 1, last)
       IN /\ \A e \in Ent : par[e] <= e
          /\ parent = par
          /\ children = [p \in Ent |-> SelectSeq(all, LAMBDA c : par[c] = p)]
          /\ components = [e \in Ent |-> IF e \in owners THEN <<"T1", "T2">> ELSE <<>>]
          /\ comp_enabled = [e \in Ent |-> IF e \in owners THEN {"T1", "T2"} ELSE {}]
          /\ scene = [e \in Ent |-> IF e <= last THEN Main ELSE None]
          /\ entities = [s \in Scenes |->
                IF s = Main THEN [i \in 1..last |-> <<i, i>>] ELSE <<>>]
          /\ root_entities = [s \in Scenes |->
                IF s = Main THEN SelectSeq(listed, LAMBDA e : par[e] = None) ELSE <<>>]
  /\ id = [e \in Ent |-> e]
  /\ name = [e \in Ent |-> DefaultName]
  /\ enabled = [e \in Ent |-> TRUE]
  /\ tags = [e \in Ent |-> {}]
  /\ layer = [e \in Ent |-> 0]
  /\ comp_entity = [c \in Comp |-> None]
  /\ component_enabled = [c \in Comp |-> TRUE]
  /\ held = [e \in Ent |-> <<>>]
  /\ file = NoFile
  /\ ret = [op |-> "init", self |-> None, arg |-> None, result |-> "ok",
            fired |-> <<>>, was |-> None]
  /\ calls = 0

\* destroy() on any entity of the hierarchy, and again on what it leaves
CascadeNext ==
  \E e \in Ent : Destroy(e) /\ UNCHANGED <<calls, sysVars, scriptVars, mgrVars>>

SpecCascade == InitFamilies /\ [][CascadeNext]_vars

\* ------------------------------------------- the registry of the scene manager

\* the calls of a scene manager, in runs of MaxCalls calls; the documents at the
\* paths of the scenes are those save has written, each with the id of a scene
RegistryNext ==
  \/ Tick /\ CreateScene /\ UNCHANGED <<heapVars, sysVars, scriptVars, file>>
  \/ \E s \in Scenes :
       Tick /\ AddScene(s) /\ UNCHANGED <<heapVars, sysVars, scriptVars, file>>
  \/ \E k \in SceneIds :
       Tick /\ RemoveScene(k) /\ UNCHANGED <<heapVars, sysVars, scriptVars, file>>
  \/ \E k \in SceneIds :
       Tick /\ SetActiveScene(k) /\ UNCHANGED <<heapVars, sysVars, scriptVars, file>>
  \/ \E k \in ({scene_id[s] : s \in Scenes} \ {None}) \cup {None} :
       Tick /\ LoadScene(k) /\ UNCHANGED <<heapVars, sysVars, scriptVars, file>>
  \/ \E k \in SceneIds, d \in ({scene_id[s] : s \in Scenes} \ {None}) \cup {None} :
       Tick /\ ReloadScene(k, d) /\ UNCHANGED <<sysVars, scriptVars, file>>
  \/ Tick /\ ManagerClear /\ UNCHANGED <<sysVars, scriptVars, file>>
  \/ Tick /\ ManagerUpdate(1) /\ UNCHANGED <<heapVars, sysVars, scriptVars, file>>

SpecRegistry == Init /\ [][RegistryNext]_vars

\* ------------------------------------------- teardown hooks that re-enter

\* scripts are attached to entities and torn down by remove_all_scripts or by
\* on_entity_destroy, where the teardown hook of a script removes another script
TeardownNext ==
  \/ Tick /\ Initialize /\ UNCHANGED <<heapVars, sysVars, mgrVars, file>>
  \/ \E e \in Ent :
       Tick /\ CreateScript("S", e) /\ UNCHANGED <<heapVars, sysVars, mgrVars, file>>
  \/ \E op \in {"remove_all_scripts", "on_entity_destroy"}, e \in Ent, x, y \in Scr :
       Tick /\ Teardown(op, e, x, y) /\ UNCHANGED <<heapVars, sysVars, mgrVars, file>>

SpecTeardown == Init /\ [][TeardownNext]_vars

\* ------------------------------------------- entities with scripts, destroyed

\* entities are created in the scene, scripts attached to them, the entities
\* destroyed with Entity.destroy(), and frames run
ScriptedDestroyNext ==
  \/ CreateEntity(Main, DefaultName) /\ UNCHANGED <<calls, sysVars, scriptVars, mgrVars>>
  \/ Initialize /\ UNCHANGED <<heapVars, sysVars, mgrVars, file, calls>>
  \/ \E e \in Ent :
       CreateScript("S", e) /\ UNCHANGED <<heapVars, sysVars, mgrVars, file, calls>>
  \/ \E e \in Ent : Destroy(e) /\ UNCHANGED <<calls, sysVars, scriptVars, mgrVars>>
  \/ ScriptUpdate(FixedStep) /\ UNCHANGED <<heapVars, sysVars, mgrVars, file, calls>>

SpecScriptedDestroy == Init /\ [][ScriptedDestroyNext]_vars

\* ------------------------------------------- update hooks that re-enter

\* scripts are attached to entities and switched on and off, and frames run in which
\* the update hook of a script removes that script or another one
ReentrantNext ==
  \/ Initialize /\ UNCHANGED <<heapVars, sysVars, mgrVars, file, calls>>
  \/ \E e \in Ent :
       CreateScript("S", e) /\ UNCHANGED <<heapVars, sysVars, mgrVars, file, calls>>
  \/ \E x \in Scr, on \in BOOLEAN :
       SetScriptEnabled(x, on) /\ UNCHANGED <<heapVars, sysVars, mgrVars, file, calls>>
  \/ \E x, y \in Scr :
       ReentrantUpdate(x, y) /\ UNCHANGED <<heapVars, sysVars, mgrVars, file, calls>>

SpecReentrant == Init /\ [][ReentrantNext]_vars

\* ------------------------------------------- scripts whose on_add raises

\* scripts of classes whose on_add hook raises or not are attached, by names the
\* registry holds or not, before and after initialize(), and frames run
FailedCreateNext ==
  \/ Initialize /\ UNCHANGED <<heapVars, sysVars, mgrVars, file, calls>>
  \/ \E x \in Scr :
       SetOnAddRaising(x) /\ UNCHANGED <<heapVars, sysVars, mgrVars, file, calls>>
  \/ \E nm \in ScriptNames, e \in Ent :
       CreateScript(nm, e) /\ UNCHANGED <<heapVars, sysVars, mgrVars, file, calls>>
  \/ ScriptUpdate(FixedStep) /\ UNCHANGED <<heapVars, sysVars, mgrVars, file, calls>>

SpecFailedCreate == Init /\ [][FailedCreateNext]_vars

\* ------------------------------------------------------------------ claims

\* B.parent == A if and only if B occurs in A.children, and then exactly once
ParentChildConsistent ==
  \A a, b \in Ent :
    /\ (parent[b] = a) <=> InSeq(b, children[a])
    /\ Count(b, children[a]) <= 1

\* after A.add_child(B), B.parent == A and B is in no other entity's child list
AddChildPost ==
  ret.op = "add_child" =>
    /\ parent[ret.arg] = ret.self
    /\ \A c \in Ent \ {ret.self} : ~InSeq(ret.arg, children[c])

\* C1 (as amended): after any sequence of add_child and remove_child calls,
\* B.parent == A exactly when B occurs in A.children, and then once; after
\* A.add_child(B) B.parent == A and B is in no other child list; after
\* A.remove_child(B) B is absent from A.children, and B.parent is null when the call
\* removed B (B was a child of A); otherwise B.parent is what it was.
C1_ParentChildInvariant ==
  /\ ParentChildConsistent
  /\ AddChildPost
  /\ ret.op = "remove_child" =>
       /\ ~InSeq(ret.arg, children[ret.self])
       /\ ret.result = "true" => parent[ret.arg] = None
       /\ ret.result = "false" => parent[ret.arg] = ret.was

\* C1 witness: add_child moved B from another parent, or remove_child removed a child
C1_Witness ==
  \/ ret.op = "add_child" /\ ret.was \notin {None, ret.self} /\ Len(children[ret.self]) = 2
  \/ ret.op = "remove_child" /\ ret.result = "true" /\ children[ret.self] # <<>>

\* C1 as stated: after every A.remove_child(B), B.parent is null and B is absent
\* from A.children
C1_AsStated ==
  /\ ParentChildConsistent
  /\ AddChildPost
  /\ ret.op = "remove_child" =>
       /\ ~InSeq(ret.arg, children[ret.self])
       /\ parent[ret.arg] = None

\* E is a value of the entity map of the scene it refers to
Registered(e) == scene[e] # None /\ DictGet(entities[scene[e]], id[e]) = e

RECURSIVE Reach(_, _)
\* the entities reached from the frontier through child lists
Reach(frontier, seen) ==
  LET new == UNION {Range(children[x]) : x \in frontier} \ seen
  IN IF new = {} THEN seen ELSE Reach(new, seen \cup new)

\* child, grandchild, ... of e
Descendants(e) == Reach({e}, {})

\* C2: root_entities is a subset of the entity map's values and holds exactly the
\* registered entities whose parent is null, each once
C2_RootsAreParentless ==
  \A s \in Scenes :
    /\ Range(root_entities[s]) \subseteq DictValues(entities[s])
    /\ \A e \in DictValues(entities[s]) :
         Count(e, root_entities[s]) = IF parent[e] = None THEN 1 ELSE 0

\* C3: for every registered entity E, E.destroy() fires on_remove exactly once for
\* each component E holds, leaves E absent from its scene's entity map and, if E had
\* a parent, absent from that parent's children
C3_DestroyCleansUp ==
  [][\A e \in Ent :
       (ret'.op = "destroy" /\ ret'.self = e /\ Registered(e)) =>
         /\ \A t \in Range(components[e]) : Count(<<"on_remove", e, t>>, ret'.fired) = 1
         /\ e \notin DictValues(entities'[scene[e]])
         /\ parent[e] # None => ~InSeq(e, children'[parent[e]])]_vars

\* C4: after E.destroy(), every descendant of E that was registered in E's scene is
\* absent from the scene's entity map and root list and holds no component
C4_DestroyCascades ==
  [][\A e \in Ent :
       (ret'.op = "destroy" /\ ret'.self = e /\ Registered(e)) =>
         \A d \in Descendants(e) :
           (scene[d] = scene[e] /\ Registered(d)) =>
             /\ d \notin DictValues(entities'[scene[e]])
             /\ ~InSeq(d, root_entities'[scene[e]])
             /\ components'[d] = <<>>]_vars

\* what a scene's entity tree is up to isomorphism: per entity its id, name, enabled
\* flag, tags, layer, its parent's id and the ids of its children in order
TreeOf(members, ids, nm, en, tg, ly, par, ch) ==
  {[id |-> ids[e], name |-> nm[e], enabled |-> en[e], tags |-> tg[e], layer |-> ly[e],
    parent |-> IF par[e] = None THEN None ELSE ids[par[e]],
    children |-> [i \in 1..Len(ch[e]) |-> ids[ch[e][i]]]] : e \in members}

\* every entity of the hierarchy was made by create_entity: it is registered
AllRegistered ==
  \A e \in Ent : (parent[e] # None \/ children[e] # <<>>) => Registered(e)

\* C5: Scene.save(path) followed by Scene.load(path) yields an entity tree
\* isomorphic to the saved one: the same ids, each denoting exactly one entity, the
\* same names, enabled flags, tags and layers, and the same parent/child relation
C5_SaveLoadRoundTrip ==
  [][\A s \in Scenes :
       (/\ ret.op = "save" /\ ret.self = s /\ ret.result = "true"
        /\ AllRegistered
        /\ ret'.op = "load" /\ ret'.self = s) =>
         /\ ret'.result = "true"
         /\ \A e1, e2 \in {e \in Ent : scene'[e] = s} : id'[e1] = id'[e2] => e1 = e2
         /\ TreeOf({e \in Ent : scene'[e] = s}, id', name', enabled', tags', layer',
                   parent', children')
              = TreeOf(DictValues(entities[s]), id, name, enabled, tags, layer,
                       parent, children)]_vars

\* C6: a Scene.load(path) that fails after the file-existence check returns false
\* and leaves the scene's entity map, root list and hierarchy as they were
C6_FailedLoadKeepsScene ==
  [][\A s \in Scenes :
       (ret'.op = "load" /\ ret'.self = s /\ ret'.result = "false" /\ file.kind # "none") =>
         /\ entities'[s] = entities[s]
         /\ root_entities'[s] = root_entities[s]
         /\ parent' = parent
         /\ children' = children]_vars

\* ---- C7

PrioritiesOf(list) == [i \in 1..Len(list) |-> priority[list[i]]]

SortedAscending(list) ==
  \A i, j \in 1..Len(list) : i < j => priority[list[i]] <= priority[list[j]]

\* the systems of one priority stand in the list in the order they were registered
TiesInRegistrationOrder(s) ==
  \A p \in Priorities :
    SelectSeq(systems[s], LAMBDA x : priority[x] = p)
      = SelectSeq(registered[s], LAMBDA x : priority[x] = p)

\* C7: the system list is always sorted by ascending priority with the systems of
\* equal priority in registration order, and Scene.update(dt) calls update on the
\* enabled systems in exactly the order of the list.
C7_SystemsRunInPriorityOrder ==
  \A s \in Scenes :
    /\ SortedAscending(systems[s])
    /\ TiesInRegistrationOrder(s)
    /\ (ret.op = "scene_update" /\ ret.self = s)
         => [i \in 1..Len(ret.fired) |-> ret.fired[i][2]]
              = SelectSeq(systems[s], LAMBDA x : sys_enabled[x])

\* systems registered with the priorities 30, 10, 20 have run as 10, 20, 30
C7_Witness ==
  /\ ret.op = "scene_update"
  /\ PrioritiesOf(registered[ret.self]) = <<30, 10, 20>>
  /\ [i \in 1..Len(ret.fired) |-> priority[ret.fired[i][2]]] = <<10, 20, 30>>

\* ---- C8

\* C8: one Scene.update(dt) calls update exactly once on every registered system
\* that is enabled and never on a disabled one, and every call carries the dt of
\* this Scene.update, whatever frames the system has skipped.
C8_UpdateOncePerEnabledSystem ==
  ret.op = "scene_update" =>
    /\ \A x \in Sys :
         Cardinality({i \in 1..Len(ret.fired) : ret.fired[i][2] = x})
           = IF InSeq(x, systems[ret.self]) /\ sys_enabled[x] THEN 1 ELSE 0
    /\ \A i \in 1..Len(ret.fired) : ret.fired[i] = <<"update", ret.fired[i][2], ret.arg>>

\* ---- C9

RECURSIVE Repeat(_, _)
Repeat(s, n) == IF n = 0 THEN <<>> ELSE s \o Repeat(s, n - 1)

\* what C9 says of the call the state records
FixedStepAccounting ==
  /\ ret.result = (ret.was + ret.arg) \div FixedStep
  /\ SelectSeq(ret.fired, LAMBDA c : c[1] = "fixed_update")
       = Repeat(Callbacks("fixed_update", FixedStep), ret.result)
  /\ accumulated_time = (ret.was + ret.arg) % FixedStep

PhaseOf(cb) == CASE cb = "update" -> 1 [] cb = "fixed_update" -> 2 [] cb = "late_update" -> 3

\* C10: within one ScriptSystem.update(dt) every update callback comes before every
\* fixed_update callback and every fixed_update callback before every late_update
\* callback.
C10_PhasesInOrder ==
  ret.op = "script_update" =>
    \A i, j \in 1..Len(ret.fired) :
      i < j => PhaseOf(ret.fired[i][1]) <= PhaseOf(ret.fired[j][1])

\* two scripts have gone through the update loop, two fixed passes and the late loop
C10_Witness ==
  /\ ret.op = "script_update"
  /\ ret.result = 2
  /\ Len(ret.fired) = 4 * NumScripts

\* ---- C11

\* the callbacks of one kind in the trace of the recorded call, as the scripts called
Received(cb) ==
  LET got == SelectSeq(ret.fired, LAMBDA c : c[1] = cb)
  IN [i \in 1..Len(got) |-> got[i][2]]

\* C11: in a frame in which update() of some scripts raises, every eligible script
\* still receives update(dt) exactly once, the fixed passes and the late phase run
\* for every eligible script, and the scripts, the failing ones included, stay as
\* they are for the frames that follow.
C11_RaisingUpdateIsIsolated ==
  (ret.op = "script_update" /\ initialized) =>
    LET run == SelectSeq(Instances(script_instances), Eligible)
    IN /\ Received("update") = run
       /\ Received("fixed_update") = Repeat(run, ret.result)
       /\ Received("late_update") = run
       /\ \A i \in 1..Len(ret.fired) :
            ret.fired[i][1] = "fixed_update" \/ ret.fired[i][3] = ret.arg

\* the update of the first script has raised in a frame with a fixed pass, and a
\* script behind it has had its three callbacks
C11_Witness ==
  /\ ret.op = "script_update" /\ initialized
  /\ ret.result >= 1
  /\ Len(ret.reported) = 1
  /\ Len(Received("update")) = 2
  /\ ret.reported[1] = <<"update", Received("update")[1], ret.arg>>

\* ---- C12

\* C12: set_active_scene(id) with a registered id returns true, makes the scene
\* registered under id the active reference with its flag set, clears the flag of
\* the scene that was the active reference before (if it is another one), and
\* leaves the flag of every other scene as it was.
C12_SetActiveRegistered ==
  [][(ret'.op = "set_active_scene" /\ ret'.arg \in DictKeys(scenes)) =>
       LET target == DictGet(scenes, ret'.arg)
       IN /\ ret'.result = "true"
          /\ active_scene' = target
          /\ active'[target]
          /\ (active_scene # None /\ active_scene # target) => ~active'[active_scene]
          /\ \A s \in Scenes \ {target, active_scene} : active'[s] = active[s]]_vars

\* the active scene has been switched from one scene to another, with a third
\* scene there
C12_Witness ==
  /\ ret.op = "set_active_scene" /\ ret.result = "true"
  /\ ret.was # None /\ ret.was # active_scene
  /\ ~active[ret.was] /\ active[active_scene]
  /\ \E s \in Scenes \ {ret.was, active_scene} : scene_id[s] # None

\* ---- C13

\* C13: set_active_scene(id) with an id that is not registered returns false and
\* leaves the active reference and every scene's active flag as they were.
C13_SetActiveUnknown ==
  [][(ret'.op = "set_active_scene" /\ ret'.arg \notin DictKeys(scenes)) =>
       /\ ret'.result = "false"
       /\ UNCHANGED <<active_scene, active>>]_vars

\* an unknown id has been refused while a scene was active, and it still is
C13_Witness ==
  /\ ret.op = "set_active_scene" /\ ret.result = "false"
  /\ ret.arg \notin DictKeys(scenes)
  /\ active_scene # None /\ active[active_scene] /\ ret.was = active_scene

\* ---- C14

\* C14: after any sequence of manager operations a scene's active flag is set only
\* if it is the scene active_scene refers to, so that at most one scene has it set.
C14_OnlyActiveSceneFlagged ==
  \A s \in Scenes : active[s] => s = active_scene

\* ---- C15

\* the calls of Scene.update in the trace of the recorded call
SceneUpdates(trace) == SelectSeq(trace, LAMBDA c : c[1] = "scene_update")

\* C15: SceneManager.update(dt) calls update(dt) once on the scene active_scene
\* refers to and on no other scene; with no active scene it calls nothing and
\* changes no state.
C15_UpdateOnlyActiveScene ==
  [][ret'.op = "manager_update" =>
       /\ SceneUpdates(ret'.fired)
            = IF active_scene # None
              THEN << <<"scene_update", active_scene, ret'.arg>> >> ELSE <<>>
       /\ active_scene = None =>
            /\ ret'.fired = <<>>
            /\ UNCHANGED <<heapVars, sysVars, scriptVars, mgrVars, file>>]_vars

\* the active scene alone has been updated, with another scene registered and a
\* removed scene that still carries its active flag
C15_Witness ==
  /\ ret.op = "manager_update"
  /\ active_scene # None
  /\ SceneUpdates(ret.fired) = << <<"scene_update", active_scene, ret.arg>> >>
  /\ \E s \in DictValues(scenes) : s # active_scene
  /\ \E s \in Scenes : s # active_scene /\ active[s]

\* C16: over any sequence of operations, repeated start_scripts calls for the same
\* scene included, each script instance receives start() at most once.
C16_StartAtMostOnce ==
  \A x \in Scr : starts[x] <= 1

\* the calls that deliver a per-frame or a collision/trigger callback
Delivering == {"script_update"} \cup CollisionHooks

\* C17: a script receives update, fixed_update, late_update or a collision/trigger
\* callback only after it has received start().
C17_CallbacksAfterStart ==
  ret.op \in Delivering =>
    \A i \in 1..Len(ret.fired) : starts[ret.fired[i][2]] >= 1

\* the scripts some instance list holds
Attached == Range(Instances(script_instances))

\* C19: update, fixed_update, late_update and the collision/trigger callbacks reach a
\* script only while its own flag and its entity's flag are set, and a script with
\* both flags set receives update exactly once per frame.
C19_OnlyWhileEffectiveEnabled ==
  /\ ret.op \in Delivering =>
       \A i \in 1..Len(ret.fired) : Eligible(ret.fired[i][2])
  /\ (ret.op = "script_update" /\ initialized) =>
       \A x \in Attached :
         Eligible(x) => Count(<<"update", x, ret.arg>>, ret.fired) = 1

\* the calls of the script system that invoke hooks of scripts
ScriptCalls ==
  Delivering \cup {"create_script", "start_scripts", "remove_script",
                   "remove_all_scripts", "on_entity_destroy"}

\* C18: a script taken off by remove_script, remove_all_scripts or on_entity_destroy
\* stays off: no later operation puts it back on a list, and in no later operation
\* does it receive start, update, fixed_update, late_update, a collision/trigger
\* callback, on_remove or on_destroy.
C18_DetachedStaysDetached ==
  [][\A x \in detached :
       /\ x \in detached'
       /\ x \notin Range(Instances(script_instances'))
       /\ ret'.op \in ScriptCalls =>
            \A i \in 1..Len(ret'.fired) : ret'.fired[i][2] # x]_vars

\* one script has been taken off and a frame reaches the other one
C18_Witness ==
  /\ detached # {}
  /\ ret.op = "script_update"
  /\ \E i \in 1..Len(ret.fired) : ret.fired[i][2] \notin detached

RECURSIVE Ascending(_)
\* the scripts of a set in the order they were attached: create_script hands out the
\* objects of the pool in ascending order
Ascending(S) ==
  IF S = {} THEN <<>> ELSE <<Min(S)>> \o Ascending(S \ {Min(S)})

\* the enabled scripts attached to entity e, in attachment order
EnabledScriptsOf(e) ==
  Ascending({x \in Scr : script_entity[x] = e /\ x \notin detached /\ script_enabled[x]})

\* C20: each of the six collision/trigger entry points, called with (acting entity,
\* other entity), invokes the matching hook, with the other entity as argument, once on
\* every enabled script attached to the acting entity, in attachment order, and on no
\* script attached to any other entity; a hook that raises does not keep the later
\* scripts from receiving the call.
C20_CollisionFanOut ==
  (ret.op \in CollisionHooks /\ initialized) =>
    LET run == EnabledScriptsOf(ret.self)
    IN ret.fired = [i \in 1..Len(run) |-> <<ret.op, run[i], ret.arg>>]

\* the instance list a dict d holds for the entity id k, or no list
InstanceList(d, k) == IF k \in DictKeys(d) THEN DictGet(d, k) ELSE <<>>

\* C21: on_entity_destroy(E) fires on_destroy exactly once on every script attached
\* to E at the time of the call, also when some of these hooks raise, and afterwards
\* E has no tracked instance list; the instance lists of all other entities are
\* unchanged.
C21_EntityDestroyTearsDown ==
  [][ret'.op = "on_entity_destroy" =>
       LET e == ret'.self
           mine == {x \in Attached : script_entity[x] = e}
       IN /\ \A x \in Scr :
               Count(<<"on_destroy", x, None>>, ret'.fired) = IF x \in mine THEN 1 ELSE 0
          /\ id[e] \notin DictKeys(script_instances')
          /\ \A o \in Ent \ {e} :
               InstanceList(script_instances', id[o]) = InstanceList(script_instances, id[o])
    ]_vars

\* C22: create_script with a name the registry does not hold returns None without
\* raising, creates no instance, fires no hook and leaves every instance list as it
\* was.
C22_UnknownScriptName ==
  [][(ret'.op = "create_script" /\ ret'.arg \notin Loadable) =>
       /\ ret'.result = "none"
       /\ ret'.fired = <<>>
       /\ script_entity' = script_entity
       /\ script_instances' = script_instances]_vars

\* an unknown name was asked for while scripts are attached
C22_Witness ==
  /\ ret.op = "create_script" /\ ret.arg \notin Loadable
  /\ initialized
  /\ script_instances # <<>>
  /\ ret.result = "none"

\* C23: is_enabled() returns true exactly when the component's own flag is set and it
\* has an owning entity and that entity is enabled; it is false for a component
\* without an entity.
C23_IsEnabledMeaning ==
  ret.op = "is_enabled" =>
    (ret.result <=> /\ component_enabled[ret.self]
                    /\ comp_entity[ret.self] # None
                    /\ enabled[comp_entity[ret.self]])

\* C24: Entity.disable() followed by Entity.enable() on the same entity leaves the
\* own flag of every component as it was before the two calls (ret.was of the
\* disable() holds those flags), and on_enable / on_disable fire only on a component
\* whose own flag changes.
C24_EntityToggleKeepsOwnFlag ==
  [][/\ (ret.op = "disable" /\ ret'.op = "enable" /\ ret'.self = ret.self) =>
          component_enabled' = ret.was
     /\ ret'.op \in {"enable", "disable", "component_enable", "component_disable"} =>
          \A i \in 1..Len(ret'.fired) :
            component_enabled'[ret'.fired[i][2]] # ret'.was[ret'.fired[i][2]]]_vars

\* C25: a component is owned by exactly one entity or by none: c.entity == E if and
\* only if E's component map holds c under c's type.
C25_ComponentOwnership ==
  \A c \in Comp, e \in Ent :
    comp_entity[c] = e <=>
      (TypeOf(c) \in DictKeys(held[e]) /\ DictGet(held[e], TypeOf(c)) = c)

\* C26: for every scene S and entity E, E is a value of S's entity map (under the key
\* E.id) if and only if E.scene is S; no entity is registered in two scenes or refers
\* to a scene that no longer holds it.
C26_SceneBackReference ==
  \A s \in Scenes, e \in Ent :
    (id[e] \in DictKeys(entities[s]) /\ DictGet(entities[s], id[e]) = e) <=> scene[e] = s

\* C27: remove_component(T) on an entity without a component of type T, and
\* A.remove_child(B) when B is not a child of A, return false without raising, fire
\* no hook, and leave the component maps, parent references and child lists of all
\* entities unchanged.
C27_StructuralNoOps ==
  [][(\/ ret'.op = "remove_component" /\ ~InSeq(ret'.arg, components[ret'.self])
      \/ ret'.op = "remove_child" /\ ~InSeq(ret'.arg, children[ret'.self])) =>
       /\ ret'.result = "false"
       /\ ret'.fired = <<>>
       /\ UNCHANGED <<components, comp_enabled, parent, children>>]_vars

\* remove_child was refused for an entity that is the child of another one
C27_Witness ==
  /\ ret.op = "remove_child" /\ ret.result = "false"
  /\ parent[ret.arg] # None
  /\ \E e \in Ent : components[e] # <<>>

\* what a load has to make of node i of the document d: the fields of the node, the
\* component entries that resolve, the id of the parent node and the ids of the
\* child nodes in document order
NodeAsEntity(d, i) ==
  LET kids == SelectSeq([k \in 1..Len(d) |-> k], LAMBDA k : d[k].up = i)
  IN [id |-> d[i].id, name |-> d[i].name, enabled |-> d[i].enabled, tags |-> d[i].tags,
      layer |-> d[i].layer,
      components |-> SelectSeq(d[i].components, LAMBDA c : c \in Resolvable),
      parent |-> IF d[i].up = 0 THEN None ELSE d[d[i].up].id,
      children |-> [k \in 1..Len(kids) |-> d[kids[k]].id]]

\* C28: Scene.load of a document in which some component entries name a type that
\* resolves in neither namespace returns true, skips exactly those entries, and still
\* reconstructs every entity of the document, with id, name, enabled flag, tags,
\* layer and children, and every resolvable component.
C28_UnresolvedComponentsSkipped ==
  [][(ret'.op = "load" /\ file.kind = "doc") =>
       LET d == file.nodes
           loaded == {e \in Ent : scene'[e] = ret'.self}
       IN /\ ret'.result = "true"
          /\ Cardinality(loaded) = Len(d)
          /\ {[id |-> id'[e], name |-> name'[e], enabled |-> enabled'[e],
               tags |-> tags'[e], layer |-> layer'[e], components |-> components'[e],
               parent |-> IF parent'[e] = None THEN None ELSE id'[parent'[e]],
               children |-> [k \in 1..Len(children'[e]) |-> id'[children'[e][k]]]] :
                e \in loaded}
               = {NodeAsEntity(d, i) : i \in 1..Len(d)}]_vars

\* a document with an unresolvable entry next to a resolvable one, on an entity with a
\* child, was loaded
C28_Witness ==
  /\ ret.op = "load" /\ ret.result = "true" /\ file.kind = "doc"
  /\ \E i \in 1..Len(file.nodes) :
       /\ file.nodes[i].components = <<"T3", "T1">>
       /\ \E k \in 1..Len(file.nodes) : file.nodes[k].up = i
  /\ \E e \in Ent : scene[e] = ret.self /\ components[e] = <<"T1">> /\ children[e] # <<>>

\* what a destroy() that ran to its end leaves of an entity: no child, no component,
\* no parent, no scene
Gone(e) ==
  children[e] = <<>> /\ components[e] = <<>> /\ parent[e] = None /\ scene[e] = None

\* the entities a call destroys: the entity destroy() is called on and those under
\* it; for clear(), the values of the scene's map and those under them
Destroyed(op, self) ==
  IF op = "destroy" THEN {self} \cup Descendants(self)
  ELSE UNION {{e} \cup Descendants(e) : e \in DictValues(entities[self])}

\* C29: destroy() on an entity that was already destroyed, directly, through its
\* parent's cascade or by Scene.clear, changes no state of any entity or scene and
\* fires no on_remove hook: a destroy() or clear() that returns leaves every entity it
\* destroys without child, component, parent and scene, and destroy() on such an
\* entity assigns nothing.
C29_DestroyIdempotent ==
  [][/\ (ret'.op \in {"destroy", "clear"} /\ ret'.result = "ok") =>
          \A e \in Destroyed(ret'.op, ret'.self) : Gone(e)'
     /\ (ret'.op = "destroy" /\ Gone(ret'.self)) =>
          /\ ret'.result = "ok"
          /\ ret'.fired = <<>>
          /\ UNCHANGED heapVars]_vars

\* destroy() was called on an entity that create_entity had put into the scene and
\* that an earlier destroy() or clear() had already taken apart
C29_Witness ==
  /\ ret.op = "destroy" /\ ret.result = "ok"
  /\ name[ret.self] = "a"
  /\ ret.was.gone
  /\ Gone(ret.self)

\* C30: a system's initialize hook is invoked exactly once when the system is
\* registered with Scene.add_system, and its shutdown hook exactly once when it is
\* removed with Scene.remove_system; update, which reaches the systems of the list
\* only, is then never invoked on a system before its initialize or after its
\* shutdown.
C30_SystemLifecycleHooks ==
  /\ ret.op = "add_system" => ret.fired = << <<"initialize", ret.arg>> >>
  /\ (ret.op = "remove_system" /\ ret.result = "true") =>
       ret.fired = << <<"shutdown", ret.arg>> >>
  /\ ret.op = "scene_update" =>
       \A i \in 1..Len(ret.fired) : InSeq(ret.fired[i][2], systems[ret.self])

\* C31: Entity.destroy() proceeds in post-order: for every entity E with children,
\* all on_remove hooks of every descendant of E fire, and every descendant is
\* removed from the map of its scene, before the first on_remove hook of E's own
\* components fires (before any step made for E); E's components are removed before
\* E is detached from its parent, and E is detached from its parent before E is
\* removed from the scene's map.
C31_DestroyPostOrder ==
  [][ret'.op = "destroy" =>
       LET StepRank(kind) ==
             IF kind = "on_remove" THEN 1 ELSE IF kind = "remove_child" THEN 2 ELSE 3
       IN
       \A steps \in {DestroyH(Heap, ret'.self, {}).steps} :
         \A e \in Ent :
           \A own \in {{i \in 1..Len(steps) : steps[i][2] = e}} :
             /\ \A i, j \in own : i < j => StepRank(steps[i][1]) <= StepRank(steps[j][1])
             /\ own # {} =>
                  \A d \in Descendants(e) \ {e} :
                    /\ \A j \in 1..Len(steps) : steps[j][2] = d => \A i \in own : j < i
                    /\ \A t \in Range(components[d]) :
                         \E j \in 1..Len(steps) : steps[j] = <<"on_remove", d, t>>
                    /\ scene[d] # None =>
                         \E j \in 1..Len(steps) :
                           steps[j] = <<"remove_entity", d, scene[d]>>]_vars

\* destroy() returned on an entity that had a parent, components and a child with
\* components: the child's hooks fired before its own
C31_Witness ==
  /\ ret.op = "destroy" /\ ret.result = "ok"
  /\ ret.was.parent # None
  /\ \E i, j \in 1..Len(ret.fired) :
       /\ i < j
       /\ ret.fired[i][2] # ret.self
       /\ ret.fired[j][2] = ret.self

\* C32: script teardown iterates over a snapshot of the instance list: when an
\* on_destroy hook fired by on_entity_destroy, or an on_remove hook fired by
\* remove_all_scripts, removes a sibling script of the same entity with
\* remove_script, every instance that was attached when the teardown began still
\* has its teardown hook called and none is skipped.
C32_TeardownOverSnapshot ==
  (ret.op \in {"remove_all_scripts", "on_entity_destroy"} /\ ret.result = "true") =>
    \A x \in Range(ret.was) :
      InSeq(<<IF ret.op = "on_entity_destroy" THEN "on_destroy" ELSE "on_remove", x, None>>,
            ret.fired)

\* C33: every call of ScriptSystem.update(dt) with a finite dt >= 0 and a positive
\* fixed step returns, whatever subset of script hooks raises during the call: the
\* fixed-update loop makes finitely many passes, and on an initialized script system
\* the late phase is reached.
C33_UpdateReturns ==
  ret.op = "script_update" =>
    /\ ret.returned
    /\ initialized =>
         SelectSeq(ret.fired, LAMBDA c : c[1] = "late_update") = Callbacks("late_update", ret.arg)

\* C34: after any sequence of add_child and remove_child calls, A.add_child(A) and
\* adding an ancestor as a child of its descendant included, the parent relation is
\* acyclic: no entity is its own parent or is reached from itself through child
\* lists, so the depth-first walks of destroy and _serialize_entity end.
C34_ParentAcyclic ==
  \A e \in Ent : parent[e] # e /\ e \notin Descendants(e)

\* C35: after Entity.destroy() of an entity E that has script instances attached in
\* the script system, no script attached to E receives update, fixed_update or
\* late_update in any later ScriptSystem.update call; in particular none does in
\* the call that follows the destroy() at once.
C35_NoCallbackAfterDestroy ==
  [][(ret.op = "destroy" /\ ret'.op = "script_update") =>
       \A i \in 1..Len(ret'.fired) : script_entity[ret'.fired[i][2]] # ret.self]_vars

\* C36: if a script's update hook re-enters the script system and removes itself or
\* a sibling with remove_script, then every effective-enabled script that was
\* attached at the start of the phase and is still attached receives that phase's
\* callback exactly once.
C36_ReentrantFrame ==
  [][(ret'.op = "script_update" /\ initialized) =>
       \A x \in Attached :
         (Eligible(x) /\ x \in Attached') =>
           /\ Count(<<"update", x, ret'.arg>>, ret'.fired) = 1
           /\ Count(<<"late_update", x, ret'.arg>>, ret'.fired) = 1]_vars

\* C37: whenever create_script returns None (script system not initialized, unknown
\* name, on_add raising), no instance has been added: every per-entity instance
\* list is the same as before the call.
C37_FailedCreateAddsNothing ==
  [][(ret'.op = "create_script" /\ ret'.result = "none") =>
       script_instances' = script_instances]_vars

\* C38: in every reachable state of a SceneManager driven by create_scene, add_scene,
\* remove_scene, set_active_scene, load_scene (loading the same file twice
\* included), reload_scene and clear, active_scene is either null or a scene that is
\* a value of the scene registry, so update never forwards to an unregistered scene.
C38_ActiveSceneRegistered ==
  /\ active_scene = None \/ active_scene \in DictValues(scenes)
  /\ ret.op = "manager_update" =>
       \A c \in Range(SceneUpdates(ret.fired)) : c[2] \in DictValues(scenes)

\* C39: in every reachable state of a SceneManager, every registry key equals the id
\* of the scene stored under it, also after reload_scene or Scene.load replaced a
\* registered scene's id by the id read from the document.
C39_KeysAreSceneIds ==
  \A i \in 1..Len(scenes) : scene_id[scenes[i][2]] = scenes[i][1]

\* C40: after a successful Scene.load of a well-formed document with distinct entity
\* ids, root_entities contains exactly the entities reconstructed from the
\* document's top-level entity nodes, each once, and no entity that was
\* reconstructed as a child, so a following save writes each entity exactly once.
C40_LoadedRootsAreTopLevel ==
  (ret.op = "load" /\ ret.result = "true") =>
    /\ \A e \in Range(root_entities[ret.self]) : parent[e] = None
    /\ Len(root_entities[ret.self])
         = Cardinality({i \in 1..Len(file.nodes) : file.nodes[i].up = 0})

====
